---------------------------- MODULE Spec2Model ----------------------------
(***************************************************************************)
(* A model of the blood-gas generator (bloodgas_generator/python/bloodgas): *)
(* the acid-base, oxygenation and electrolyte engines, the scenario mapper  *)
(* with its condition catalog, the variability engine on the process-wide   *)
(* random source, the orchestrator generate_blood_gas and the               *)
(* interpretation engine.                                                   *)
(*                                                                         *)
(* Numbers.  The program computes in binary floating point; the model      *)
(* computes in decimal fixed point.  Every physiological quantity (mmHg,    *)
(* mEq/L, pH, g/dL, %, fractions) is an integer count of 1/Unit, so pH 7.40  *)
(* is 74000 and FiO2 0.21 is 2100.  Products and quotients are rounded to   *)
(* the nearest unit; log10 and 10^x are computed digit by digit from        *)
(* tables of 10^(k/10), 10^(k/100), 10^(k/1000), 10^(k/10000).              *)
(***************************************************************************)
EXTENDS Integers, Sequences, FiniteSets, TLC

\* One unit of the fixed-point representation of a Python float: 1e-4.
Unit == 10000

\* Mantissas inside Log10 and Pow10 carry two more digits (1e-6).
Fine == 100 * Unit

MaxInt == 2147483647

\* Python's None where a number is expected (Optional[float], Optional[int]).
NoneNumber == -MaxInt - 1

\* float('inf')
Infinity == MaxInt

-----------------------------------------------------------------------------
(* Fixed-point arithmetic *)

\* "name = value" followed by the statements that use the name: the value
\* is computed once.
Bind(value, Rest(_)) == Rest(value)

Abs(x) == IF x < 0 THEN -x ELSE x

Max(x, y) == IF x >= y THEN x ELSE y

Min(x, y) == IF x <= y THEN x ELSE y

\* <<q, r>> with r * b = q * c + r', for 0 <= r < c, b >= 0: long
\* multiplication over the decimal digits of b, so that no intermediate
\* product leaves the machine integers.
RECURSIVE SmallQR(_, _, _)
SmallQR(r, b, c) ==
  IF b = 0 THEN <<0, 0>>
  ELSE Bind(SmallQR(r, b \div 10, c), LAMBDA p :
       Bind(10 * p[2] + r * (b % 10), LAMBDA t :
         <<10 * p[1] + (t \div c), t % c>>))

\* <<floor(a*b/c), (a*b) mod c>> for a, b >= 0 and c > 0.
MulDivQR(a, b, c) ==
  IF a = 0 \/ b <= MaxInt \div a
  THEN <<(a * b) \div c, (a * b) % c>>
  ELSE Bind(SmallQR(a % c, b, c), LAMBDA p :
         <<(a \div c) * b + p[1], p[2]>>)

\* a*b/c rounded down, a, b >= 0.
MulDivFloor(a, b, c) == MulDivQR(a, b, c)[1]

\* a*b/c rounded to the nearest integer (halves away from zero), any sign
\* of a and b, c > 0.
MulDiv(a, b, c) ==
  Bind(MulDivQR(Abs(a), Abs(b), c), LAMBDA p :
  Bind(p[1] + (IF 2 * p[2] >= c THEN 1 ELSE 0), LAMBDA q :
    IF (a < 0) = (b < 0) THEN q ELSE -q))

\* The float product x * y and quotient x / y (y # 0) of two quantities.
FxMul(x, y) == MulDiv(x, y, Unit)

FxDiv(x, y) == IF y > 0 THEN MulDiv(x, Unit, y) ELSE -MulDiv(x, Unit, -y)

\* 10^(k/10), 10^(k/100), 10^(k/1000), 10^(k/10000) for k = 0..9, in 1/Fine.
PowTable ==
  << <<1000000, 1258925, 1584893, 1995262, 2511886,
       3162278, 3981072, 5011872, 6309573, 7943282>>,
     <<1000000, 1023293, 1047129, 1071519, 1096478,
       1122018, 1148154, 1174898, 1202264, 1230269>>,
     <<1000000, 1002305, 1004616, 1006932, 1009253,
       1011579, 1013911, 1016249, 1018591, 1020939>>,
     <<1000000, 1000230, 1000461, 1000691, 1000921,
       1001152, 1001383, 1001613, 1001844, 1002074>> >>

\* The largest digit k with 10^(k/10^level) <= m.
LogDigit(level, m) ==
  CHOOSE k \in 0..9 :
    /\ k = 0 \/ PowTable[level][k + 1] <= m
    /\ k = 9 \/ PowTable[level][k + 2] > m

\* <<n, d, e>> with n/d = (num/den) / 10^e and 1 <= n/d < 10.
RECURSIVE Normalise(_, _, _)
Normalise(num, den, e) ==
  IF num < den THEN Normalise(10 * num, den, e - 1)
  ELSE IF num >= 10 * den THEN Normalise(num, 10 * den, e + 1)
  ELSE <<num, den, e>>

\* math.log10(num / den) for num, den > 0, in 1/Unit.
Log10(num, den) ==
  Bind(Normalise(num, den, 0), LAMBDA n :
  Bind(MulDivFloor(n[1], Fine, n[2]), LAMBDA m0 :
  Bind(LogDigit(1, m0), LAMBDA a :
  Bind(MulDivFloor(m0, Fine, PowTable[1][a + 1]), LAMBDA m1 :
  Bind(LogDigit(2, m1), LAMBDA b :
  Bind(MulDivFloor(m1, Fine, PowTable[2][b + 1]), LAMBDA m2 :
  Bind(LogDigit(3, m2), LAMBDA c :
  Bind(MulDivFloor(m2, Fine, PowTable[3][c + 1]), LAMBDA m3 :
  Bind(LogDigit(4, m3), LAMBDA d :
    n[3] * Unit + 1000 * a + 100 * b + 10 * c + d)))))))))

RECURSIVE TenTo(_)
TenTo(e) == IF e = 0 THEN 1 ELSE 10 * TenTo(e - 1)

\* 10 ** (f / Unit) in 1/Fine, for -6 * Unit <= f < 3 * Unit.
Pow10(f) ==
  Bind(f \div Unit, LAMBDA e :
  Bind(f % Unit, LAMBDA g :
  Bind(PowTable[1][(g \div 1000) + 1], LAMBDA m1 :
  Bind(MulDiv(m1, PowTable[2][((g \div 100) % 10) + 1], Fine), LAMBDA m2 :
  Bind(MulDiv(m2, PowTable[3][((g \div 10) % 10) + 1], Fine), LAMBDA m3 :
  Bind(MulDiv(m3, PowTable[4][(g % 10) + 1], Fine), LAMBDA m4 :
    IF e >= 0 THEN m4 * TenTo(e) ELSE MulDiv(m4, 1, TenTo(-e))))))))

-----------------------------------------------------------------------------
(* models/disorders.py: the enumerations *)

\* Python's None where an enumeration member or a string is expected.
None == "None"

Disorder ==
  {"NORMAL", "METABOLIC_ACIDOSIS", "METABOLIC_ALKALOSIS",
   "RESPIRATORY_ACIDOSIS", "RESPIRATORY_ALKALOSIS"}

Severity == {"MILD", "MODERATE", "SEVERE"}

Compensation == {"NONE", "PARTIAL", "APPROPRIATE", "EXCESSIVE"}

Duration == {"ACUTE", "SUBACUTE", "CHRONIC"}

ChronicCondition ==
  {"TYPE1_DIABETES", "TYPE2_DIABETES", "COPD", "CHRONIC_KIDNEY_DISEASE",
   "HEART_FAILURE", "CIRRHOSIS", "OBESITY_HYPOVENTILATION", "ANEMIA_CHRONIC"}

-----------------------------------------------------------------------------
(* models/patient_state.py: PatientFactors *)

\* PatientFactors(age, chronic_conditions, baseline_hemoglobin,
\* baseline_albumin, temperature_celsius, is_pregnant); the optional
\* baselines are NoneNumber unless the caller knows them.
PatientFactors(age, chronic, hb, alb, pregnant) ==
  [age |-> age, chronic_conditions |-> chronic, baseline_hemoglobin |-> hb,
   baseline_albumin |-> alb, temperature_celsius |-> 37 * Unit,
   is_pregnant |-> pregnant]

get_baseline_pco2(self) ==
  IF self.is_pregnant THEN 32 * Unit
  ELSE IF "OBESITY_HYPOVENTILATION" \in self.chronic_conditions THEN 48 * Unit
  ELSE IF "COPD" \in self.chronic_conditions THEN 45 * Unit
  ELSE 40 * Unit

get_baseline_hco3(self) ==
  IF self.is_pregnant THEN 20 * Unit
  ELSE IF "COPD" \in self.chronic_conditions THEN 28 * Unit
  ELSE IF "CHRONIC_KIDNEY_DISEASE" \in self.chronic_conditions THEN 20 * Unit
  ELSE 24 * Unit

get_baseline_hemoglobin(self) ==
  IF self.baseline_hemoglobin # NoneNumber THEN self.baseline_hemoglobin
  ELSE IF self.is_pregnant THEN 115000
  ELSE IF "ANEMIA_CHRONIC" \in self.chronic_conditions THEN 9 * Unit
  ELSE IF "CHRONIC_KIDNEY_DISEASE" \in self.chronic_conditions THEN 105000
  ELSE 14 * Unit

get_baseline_albumin(self) ==
  IF self.baseline_albumin # NoneNumber THEN self.baseline_albumin
  ELSE IF "CIRRHOSIS" \in self.chronic_conditions THEN 25000
  ELSE IF "CHRONIC_KIDNEY_DISEASE" \in self.chronic_conditions THEN 32000
  ELSE 4 * Unit

-----------------------------------------------------------------------------
(* physiology/acid_base.py: AcidBaseEngine *)

NORMAL_PH == <<73500, 74500>>

NORMAL_PCO2 == <<35 * Unit, 45 * Unit>>

NORMAL_HCO3 == <<22 * Unit, 26 * Unit>>

\* pKa of carbonic acid, 6.1.
PK == 61000

\* The value a raise ValueError leaves in place of a float.
ValueError == -MaxInt

\* pH = 6.1 + log10(hco3 / (0.03 * pco2)); CO2_SOLUBILITY = 0.03 = 3/100.
calculate_ph(hco3, pco2) ==
  IF pco2 <= 0 \/ hco3 <= 0 THEN ValueError
  ELSE PK + Log10(100 * hco3, 3 * pco2)

\* calculate_hco3: 0.03 * pco2 * 10 ** (ph - 6.1).  No argument is tested.
calculate_hco3(ph, pco2) ==
  MulDiv(MulDiv(3, pco2, 100), Pow10(ph - PK), Fine)

\* calculate_pco2: hco3 / (0.03 * 10 ** (ph - 6.1)).  No argument is tested;
\* the divisor is positive for every pH.
calculate_pco2(ph, hco3) ==
  MulDiv(hco3, Fine, MulDiv(3, Pow10(ph - PK), 100))

\* BE = (hco3 - 24.4) + (2.3 * Hb + 7.7) * (pH - 7.4)
calculate_base_excess(ph, hco3, hemoglobin) ==
  (hco3 - 244000) + FxMul(MulDiv(23, hemoglobin, 10) + 77000, ph - 74000)

\* 15.0, the default of calculate_base_excess's hemoglobin parameter.
DEFAULT_HEMOGLOBIN == 15 * Unit

\* Winter's formula: 1.5 * hco3 + 8, +/- 2.
expected_pco2_metabolic_acidosis(hco3) ==
  Bind(MulDiv(15, hco3, 10) + 8 * Unit, LAMBDA expected :
    <<expected - 2 * Unit, expected + 2 * Unit>>)

expected_pco2_metabolic_alkalosis(hco3) ==
  Bind(MulDiv(7, hco3, 10) + 21 * Unit, LAMBDA expected :
    <<expected - 2 * Unit, expected + 2 * Unit>>)

expected_hco3_respiratory_acidosis_acute(pco2) ==
  Bind(pco2 - 40 * Unit, LAMBDA delta_pco2 :
  Bind(24 * Unit + MulDiv(delta_pco2, 1, 10), LAMBDA expected :
    <<expected - 2 * Unit, expected + 2 * Unit>>))

expected_hco3_respiratory_acidosis_chronic(pco2) ==
  Bind(pco2 - 40 * Unit, LAMBDA delta_pco2 :
  Bind(24 * Unit + MulDiv(35, MulDiv(delta_pco2, 1, 10), 10), LAMBDA expected :
    <<expected - 2 * Unit, expected + 2 * Unit>>))

expected_hco3_respiratory_alkalosis_acute(pco2) ==
  Bind(40 * Unit - pco2, LAMBDA delta_pco2 :
  Bind(24 * Unit - 2 * MulDiv(delta_pco2, 1, 10), LAMBDA expected :
    <<Max(expected - 2 * Unit, 8 * Unit), expected + 2 * Unit>>))

expected_hco3_respiratory_alkalosis_chronic(pco2) ==
  Bind(40 * Unit - pco2, LAMBDA delta_pco2 :
  Bind(24 * Unit - 5 * MulDiv(delta_pco2, 1, 10), LAMBDA expected :
    <<Max(expected - 2 * Unit, 12 * Unit), expected + 2 * Unit>>))

identify_primary_disorder(ph, pco2, hco3) ==
  IF NORMAL_PH[1] <= ph /\ ph <= NORMAL_PH[2]
  THEN IF pco2 < NORMAL_PCO2[1] /\ hco3 < NORMAL_HCO3[1] THEN "METABOLIC_ACIDOSIS"
       ELSE IF pco2 > NORMAL_PCO2[2] /\ hco3 > NORMAL_HCO3[2] THEN "METABOLIC_ALKALOSIS"
       ELSE "NORMAL"
  ELSE IF ph < NORMAL_PH[1]
  THEN IF pco2 > NORMAL_PCO2[2] THEN "RESPIRATORY_ACIDOSIS" ELSE "METABOLIC_ACIDOSIS"
  ELSE IF pco2 < NORMAL_PCO2[1] THEN "RESPIRATORY_ALKALOSIS" ELSE "METABOLIC_ALKALOSIS"

\* <<compensation_status, secondary_disorder>>
assess_compensation(primary_disorder, ph, pco2, hco3, duration) ==
  IF primary_disorder = "NORMAL" THEN <<"NONE", None>>
  ELSE IF primary_disorder = "METABOLIC_ACIDOSIS"
  THEN Bind(expected_pco2_metabolic_acidosis(hco3), LAMBDA expected_pco2_range :
         IF pco2 < expected_pco2_range[1] THEN <<"EXCESSIVE", "RESPIRATORY_ALKALOSIS">>
           ELSE IF pco2 > expected_pco2_range[2] THEN <<"PARTIAL", "RESPIRATORY_ACIDOSIS">>
           ELSE <<"APPROPRIATE", None>>)
  ELSE IF primary_disorder = "METABOLIC_ALKALOSIS"
  THEN Bind(expected_pco2_metabolic_alkalosis(hco3), LAMBDA expected_pco2_range :
         IF pco2 > expected_pco2_range[2] THEN <<"EXCESSIVE", "RESPIRATORY_ACIDOSIS">>
           ELSE IF pco2 < expected_pco2_range[1] THEN <<"PARTIAL", "RESPIRATORY_ALKALOSIS">>
           ELSE <<"APPROPRIATE", None>>)
  ELSE IF primary_disorder = "RESPIRATORY_ACIDOSIS"
  THEN Bind(IF duration = "ACUTE"
             THEN expected_hco3_respiratory_acidosis_acute(pco2)
             ELSE expected_hco3_respiratory_acidosis_chronic(pco2), LAMBDA expected_hco3_range :
         IF hco3 > expected_hco3_range[2] THEN <<"EXCESSIVE", "METABOLIC_ALKALOSIS">>
           ELSE IF hco3 < expected_hco3_range[1] THEN <<"PARTIAL", "METABOLIC_ACIDOSIS">>
           ELSE <<"APPROPRIATE", None>>)
  ELSE IF primary_disorder = "RESPIRATORY_ALKALOSIS"
  THEN Bind(IF duration = "ACUTE"
             THEN expected_hco3_respiratory_alkalosis_acute(pco2)
             ELSE expected_hco3_respiratory_alkalosis_chronic(pco2), LAMBDA expected_hco3_range :
         IF hco3 < expected_hco3_range[1] THEN <<"EXCESSIVE", "METABOLIC_ACIDOSIS">>
           ELSE IF hco3 > expected_hco3_range[2] THEN <<"PARTIAL", "METABOLIC_ALKALOSIS">>
           ELSE <<"APPROPRIATE", None>>)
  ELSE <<"NONE", None>>

\* The dataclass AcidBaseState.  A ValueError raised by calculate_ph while
\* the state is built is carried in its ph and base_excess.
AcidBaseState(ph, pco2, hco3, base_excess, primary, status, secondary) ==
  [ph |-> ph, pco2 |-> pco2, hco3 |-> hco3, base_excess |-> base_excess,
   primary_disorder |-> primary, compensation_status |-> status,
   secondary_disorder |-> secondary]

\* The place of an AcidBaseState in a call that builds none.
NoAcidBaseState ==
  AcidBaseState(NoneNumber, NoneNumber, NoneNumber, NoneNumber, None, None, None)

\* The three-way choice "if MILD ... elif MODERATE ... else ...".
BySeverity(severity, mild, moderate, severe) ==
  IF severity = "MILD" THEN mild
  ELSE IF severity = "MODERATE" THEN moderate
  ELSE severe

\* The compensating variable chosen by generate_for_disorder: baseline for
\* NONE, halfway to the near edge of the expected window for PARTIAL, the
\* middle of the window for APPROPRIATE, beyond the far edge for EXCESSIVE.
CompensatedValue(compensation, baseline, expected, partial_edge, excessive) ==
  IF compensation = "NONE" THEN baseline
  ELSE IF compensation = "PARTIAL" THEN MulDiv(baseline + expected[partial_edge], 1, 2)
  ELSE IF compensation = "APPROPRIATE" THEN MulDiv(expected[1] + expected[2], 1, 2)
  ELSE excessive

generate_for_disorder(disorder, severity, compensation, duration, baseline_pco2, baseline_hco3) ==
  IF disorder = "NORMAL"
  THEN AcidBaseState(74000, baseline_pco2, baseline_hco3, 0, "NORMAL", "NONE", None)
  ELSE
    Bind(IF disorder = "METABOLIC_ACIDOSIS"
          THEN BySeverity(severity, 18 * Unit, 14 * Unit, 8 * Unit)
          ELSE BySeverity(severity, 30 * Unit, 36 * Unit, 42 * Unit), LAMBDA hco3_primary :
    Bind(IF disorder = "RESPIRATORY_ACIDOSIS"
          THEN BySeverity(severity, 52 * Unit, 65 * Unit, 85 * Unit)
          ELSE BySeverity(severity, 30 * Unit, 24 * Unit, 18 * Unit), LAMBDA pco2_primary :
    Bind(IF disorder = "METABOLIC_ACIDOSIS"
          THEN expected_pco2_metabolic_acidosis(hco3_primary)
          ELSE IF disorder = "METABOLIC_ALKALOSIS"
          THEN expected_pco2_metabolic_alkalosis(hco3_primary)
          ELSE IF disorder = "RESPIRATORY_ACIDOSIS"
          THEN IF duration = "CHRONIC"
               THEN expected_hco3_respiratory_acidosis_chronic(pco2_primary)
               ELSE expected_hco3_respiratory_acidosis_acute(pco2_primary)
          ELSE IF duration = "CHRONIC"
               THEN expected_hco3_respiratory_alkalosis_chronic(pco2_primary)
               ELSE expected_hco3_respiratory_alkalosis_acute(pco2_primary), LAMBDA expected :
    Bind(IF disorder = "METABOLIC_ACIDOSIS"
          THEN CompensatedValue(compensation, baseline_pco2, expected, 2,
                                expected[1] - 4 * Unit)
          ELSE IF disorder = "METABOLIC_ALKALOSIS"
          THEN CompensatedValue(compensation, baseline_pco2, expected, 1,
                                expected[2] + 4 * Unit)
          ELSE pco2_primary, LAMBDA pco2 :
    Bind(IF disorder = "RESPIRATORY_ACIDOSIS"
          THEN CompensatedValue(compensation, baseline_hco3, expected, 1,
                                expected[2] + 4 * Unit)
          ELSE IF disorder = "RESPIRATORY_ALKALOSIS"
          THEN CompensatedValue(compensation, baseline_hco3, expected, 2,
                                expected[1] - 2 * Unit)
          ELSE hco3_primary, LAMBDA hco3 :
    Bind(calculate_ph(hco3, pco2), LAMBDA ph :
    Bind(IF ph = ValueError THEN ValueError
          ELSE calculate_base_excess(ph, hco3, DEFAULT_HEMOGLOBIN), LAMBDA base_excess :
    Bind(IF ph = ValueError THEN <<"NONE", None>>
          ELSE assess_compensation(disorder, ph, pco2, hco3, duration), LAMBDA assessed :
      AcidBaseState(ph, pco2, hco3, base_excess, disorder,
                      assessed[1], assessed[2])))))))))

apply_secondary_disorder(state, secondary_disorder, secondary_severity) ==
  Bind(BySeverity(secondary_severity, 3000, 6000, Unit), LAMBDA effect_magnitude :
  Bind(IF secondary_disorder = "RESPIRATORY_ACIDOSIS"
        THEN state.pco2 + 20 * effect_magnitude
        ELSE IF secondary_disorder = "RESPIRATORY_ALKALOSIS"
        THEN Max(state.pco2 - 15 * effect_magnitude, 15 * Unit)
        ELSE state.pco2, LAMBDA new_pco2 :
  Bind(IF secondary_disorder = "METABOLIC_ACIDOSIS"
        THEN Max(state.hco3 - 10 * effect_magnitude, 6 * Unit)
        ELSE IF secondary_disorder = "METABOLIC_ALKALOSIS"
        THEN state.hco3 + 10 * effect_magnitude
        ELSE state.hco3, LAMBDA new_hco3 :
  Bind(calculate_ph(new_hco3, new_pco2), LAMBDA new_ph :
  Bind(IF new_ph = ValueError THEN ValueError
        ELSE calculate_base_excess(new_ph, new_hco3, DEFAULT_HEMOGLOBIN), LAMBDA new_be :
    AcidBaseState(new_ph, new_pco2, new_hco3, new_be,
                    state.primary_disorder, "NONE", secondary_disorder))))))

-----------------------------------------------------------------------------
(* physiology/oxygenation.py: OxygenationEngine *)

ATMOSPHERIC_PRESSURE_SEA_LEVEL == 760 * Unit

WATER_VAPOR_PRESSURE == 47 * Unit

\* RESPIRATORY_QUOTIENT = 0.8 = 8/10; x / RQ is x * 10 / 8.
OverRQ(x) == MulDiv(x, 10, 8)

NORMAL_PAO2 == <<80 * Unit, 100 * Unit>>

\* PAO2 = FiO2 * (Patm - PH2O) - PaCO2 / RQ
calculate_alveolar_po2(fio2, paco2) ==
  Bind(FxMul(fio2, ATMOSPHERIC_PRESSURE_SEA_LEVEL - WATER_VAPOR_PRESSURE), LAMBDA pio2 :
    pio2 - OverRQ(paco2))

calculate_aa_gradient(pao2_arterial, paco2, fio2) ==
  calculate_alveolar_po2(fio2, paco2) - pao2_arterial

\* (age / 4) + 4, age a whole number of years.
expected_aa_gradient(age) == MulDiv(age * Unit, 1, 4) + 4 * Unit

calculate_pf_ratio(pao2, fio2) ==
  IF fio2 <= 0 THEN ValueError ELSE FxDiv(pao2, fio2)

classify_ards(pf_ratio) ==
  IF pf_ratio >= 300 * Unit THEN "None/Normal"
  ELSE IF pf_ratio >= 200 * Unit THEN "Mild ARDS"
  ELSE IF pf_ratio >= 100 * Unit THEN "Moderate ARDS"
  ELSE "Severe ARDS"

calculate_p50(ph, temperature, pco2, dpg_2_3) ==
  Bind(5 * (74000 - ph), LAMBDA ph_effect :
  Bind(MulDiv(temperature - 37 * Unit, 15, 10), LAMBDA temp_effect :
  Bind(MulDiv(pco2 - 40 * Unit, 5, 100), LAMBDA co2_effect :
  Bind(5 * (dpg_2_3 - Unit), LAMBDA dpg_effect :
  Bind(27 * Unit + ph_effect + temp_effect + co2_effect + dpg_effect, LAMBDA p50 :
    Max(Min(p50, 40 * Unit), 15 * Unit))))))

\* The Hill equation with n = 2.7:
\*   100 * pao2^n / (p50^n + pao2^n) = 100 / (1 + 10^(n * log10(p50 / pao2)))
calculate_sao2(pao2, ph, temperature, pco2) ==
  IF pao2 <= 0 THEN 0
  ELSE Bind(calculate_p50(ph, temperature, pco2, Unit), LAMBDA p50 :
       Bind(MulDiv(27, Log10(p50, pao2), 10), LAMBDA f :
       Bind(IF f >= 9 * Unit THEN 0
             ELSE IF f >= 3 * Unit
             THEN MulDiv(100 * Unit, 1, 1 + Pow10(f - 6 * Unit))
             ELSE MulDiv(100 * Unit, Fine, Fine + Pow10(f)), LAMBDA sao2 :
         Min(Max(sao2, 0), 100 * Unit))))

\* calculate_sao2(po2, ph): temperature and pco2 at their defaults.
calculate_sao2_default(pao2, ph) == calculate_sao2(pao2, ph, 37 * Unit, 40 * Unit)

\* A generate_oxygenation that returns the computed PaO2 without a floor.
FloorPaO2Off(pao2) == pao2

\* "pao2 = max(pao2, 30)": the floor under the generated PaO2.
FloorPaO2(pao2) == Max(pao2, 30 * Unit)

generate_oxygenation(fio2, paco2, age, aa_gradient_elevated, target_aa_gradient, shunt_fraction, ph, temperature) ==
  Bind(expected_aa_gradient(age), LAMBDA expected_aa :
  Bind(IF target_aa_gradient # NoneNumber THEN target_aa_gradient
        ELSE IF aa_gradient_elevated THEN expected_aa + 20 * Unit
        ELSE expected_aa, LAMBDA aa_gradient :
  Bind(calculate_alveolar_po2(fio2, paco2), LAMBDA pao2_alveolar :
  Bind(pao2_alveolar - aa_gradient, LAMBDA pao2_ideal :
  Bind(IF shunt_fraction > 0
        THEN FxMul(pao2_ideal, Unit - shunt_fraction) + FxMul(40 * Unit, shunt_fraction)
        ELSE pao2_ideal, LAMBDA pao2_shunted :
  Bind(FloorPaO2(pao2_shunted), LAMBDA pao2 :
    [pao2 |-> pao2,
       sao2 |-> calculate_sao2(pao2, ph, temperature, paco2),
       fio2 |-> fio2,
       pao2_fio2_ratio |-> calculate_pf_ratio(pao2, fio2),
       aa_gradient |-> aa_gradient,
       expected_aa_gradient |-> expected_aa,
       pao2_normal |-> (fio2 > 0 /\ pao2 >= FxMul(NORMAL_PAO2[1], MulDiv(fio2, Unit, 2100))),
       aa_gradient_elevated |-> (aa_gradient > expected_aa + 5 * Unit)]))))))

-----------------------------------------------------------------------------
(* physiology/electrolytes.py: ElectrolyteEngine *)

\* AG = Na - (Cl + HCO3)
calculate_anion_gap(sodium, chloride, hco3) == sodium - (chloride + hco3)

\* Corrected AG = AG + 2.5 * (4 - albumin)
correct_anion_gap_for_albumin(anion_gap, albumin) ==
  anion_gap + MulDiv(25, 4 * Unit - albumin, 10)

\* Delta gap = AG - 12
calculate_delta_gap(anion_gap) == anion_gap - 12 * Unit

calculate_delta_ratio(anion_gap, hco3) ==
  Bind(anion_gap - 12 * Unit, LAMBDA delta_ag :
  Bind(24 * Unit - hco3, LAMBDA delta_hco3 :
    IF delta_hco3 <= 0
      THEN IF delta_ag > 4 * Unit THEN Infinity ELSE Unit
      ELSE FxDiv(delta_ag, delta_hco3)))

\* <<has_hidden_non_gap_acidosis, has_hidden_metabolic_alkalosis>>
analyze_delta_ratio(delta_ratio) == <<delta_ratio < Unit, delta_ratio > 2 * Unit>>

\* 2 * Na + glucose / 18 + bun / 2.8, bun at its default 14.0.
calculate_osmolality(sodium, glucose) ==
  2 * sodium + MulDiv(glucose, 1, 18) + 5 * Unit

\* "x if x else default": None and 0.0 are both falsy.
OrDefault(target, default) ==
  IF target = NoneNumber \/ target = 0 THEN default ELSE target

generate_electrolytes(hco3, ph, elevated_anion_gap, target_anion_gap, sodium_target, potassium_target, chloride_target, glucose_target, lactate_target, albumin) ==
  Bind(OrDefault(sodium_target, 140 * Unit), LAMBDA sodium :
  Bind(OrDefault(potassium_target, 4 * Unit), LAMBDA potassium :
  Bind(OrDefault(glucose_target, 95 * Unit), LAMBDA glucose :
  Bind(OrDefault(lactate_target, Unit), LAMBDA lactate :
  Bind(IF target_anion_gap # NoneNumber THEN target_anion_gap
        ELSE IF elevated_anion_gap THEN 22 * Unit
        ELSE 10 * Unit, LAMBDA planned_gap :
  Bind(IF chloride_target # NoneNumber THEN chloride_target
        ELSE Max(Min(sodium - planned_gap - hco3, 120 * Unit), 85 * Unit), LAMBDA chloride :
  Bind(IF chloride_target # NoneNumber THEN sodium - (chloride + hco3)
        ELSE planned_gap, LAMBDA anion_gap :
  Bind(correct_anion_gap_for_albumin(anion_gap, albumin), LAMBDA corrected_ag :
  Bind(calculate_delta_ratio(corrected_ag, hco3), LAMBDA delta_ratio :
  Bind(analyze_delta_ratio(delta_ratio), LAMBDA hidden :
    [sodium |-> sodium, potassium |-> potassium, chloride |-> chloride,
       glucose |-> glucose, lactate |-> lactate, albumin |-> albumin,
       anion_gap |-> anion_gap, corrected_anion_gap |-> corrected_ag,
       delta_gap |-> calculate_delta_gap(corrected_ag),
       delta_ratio |-> delta_ratio,
       anion_gap_category |->
         IF corrected_ag > 14 * Unit THEN "ELEVATED"
         ELSE IF corrected_ag < 6 * Unit THEN "LOW"
         ELSE "NORMAL",
       has_hidden_non_gap_acidosis |-> hidden[1],
       has_hidden_metabolic_alkalosis |-> hidden[2],
       calculated_osmolality |-> calculate_osmolality(sodium, glucose)]))))))))))

-----------------------------------------------------------------------------
(* models/disorders.py, scenarios/clinical_conditions.py: the condition catalog *)

ClinicalCondition ==
  {"COPD_EXACERBATION",
   "ASTHMA_ATTACK",
   "PULMONARY_EMBOLISM",
   "ARDS",
   "PNEUMONIA",
   "OPIOID_OVERDOSE",
   "HYPERVENTILATION_ANXIETY",
   "HYPERVENTILATION_PAIN",
   "NEUROMUSCULAR_WEAKNESS",
   "DKA",
   "HHS",
   "LACTIC_ACIDOSIS_SEPSIS",
   "LACTIC_ACIDOSIS_SHOCK",
   "LACTIC_ACIDOSIS_SEIZURE",
   "RENAL_FAILURE_ACUTE",
   "RENAL_FAILURE_CHRONIC",
   "TOXIC_INGESTION_METHANOL",
   "TOXIC_INGESTION_ETHYLENE_GLYCOL",
   "TOXIC_INGESTION_SALICYLATE",
   "STARVATION_KETOSIS",
   "ALCOHOLIC_KETOACIDOSIS",
   "DIARRHEA",
   "RTA_TYPE1",
   "RTA_TYPE2",
   "RTA_TYPE4",
   "SALINE_INFUSION",
   "VOMITING",
   "NG_SUCTION",
   "DIURETIC_USE",
   "HYPOKALEMIA",
   "HYPERALDOSTERONISM",
   "MILK_ALKALI_SYNDROME",
   "POST_HYPERCAPNIA",
   "HEALTHY",
   "PREGNANCY",
   "HIGH_ALTITUDE"}

\* A ConditionEffect record; the ranges are <<low, high>> pairs.
ConditionEffect(disorder, pco2, hco3, po2, aa_elevated, aa_range, shunt, ag_elevated, ag, na, k, cl, glucose, lactate, blocked, drive, multiplier, points) ==
  [primary_disorder |-> disorder, pco2_effect |-> pco2, hco3_effect |-> hco3,
   po2_effect |-> po2, aa_gradient_elevated |-> aa_elevated,
   aa_gradient_range |-> aa_range, shunt_fraction_range |-> shunt,
   anion_gap_elevated |-> ag_elevated, typical_anion_gap |-> ag,
   sodium_effect |-> na, potassium_effect |-> k, chloride_effect |-> cl,
   glucose_effect |-> glucose, lactate_effect |-> lactate,
   compensation_blocked |-> blocked, affects_respiratory_drive |-> drive,
   respiratory_drive_multiplier |-> multiplier, teaching_points |-> points]

\* The catalog as the module is loaded: every ClinicalCondition has a record.
\* Numbers are in 1/Unit; teaching_points is the number of the record's points.
CatalogAtImport ==
  "COPD_EXACERBATION" :>
    ConditionEffect("RESPIRATORY_ACIDOSIS", <<50000, 200000>>, <<40000, 120000>>, <<450000, 650000>>, TRUE, <<150000, 320000>>, <<200, 800>>,
      FALSE, <<80000, 120000>>, <<-20000, 20000>>, <<-3000, 3000>>, <<-20000, 20000>>, <<700000, 1100000>>, <<8000, 25000>>,
      FALSE, FALSE, 10000, 4) @@
  "ASTHMA_ATTACK" :>
    ConditionEffect("RESPIRATORY_ALKALOSIS", <<-150000, -50000>>, <<-40000, 0>>, <<600000, 850000>>, TRUE, <<150000, 350000>>, <<0, 500>>,
      FALSE, <<80000, 120000>>, <<-20000, 20000>>, <<-3000, 3000>>, <<-20000, 20000>>, <<700000, 1100000>>, <<10000, 30000>>,
      FALSE, TRUE, 15000, 4) @@
  "PULMONARY_EMBOLISM" :>
    ConditionEffect("RESPIRATORY_ALKALOSIS", <<-120000, -50000>>, <<-30000, 0>>, <<550000, 800000>>, TRUE, <<200000, 450000>>, <<500, 2000>>,
      FALSE, <<80000, 120000>>, <<-20000, 20000>>, <<-3000, 3000>>, <<-20000, 20000>>, <<700000, 1100000>>, <<10000, 40000>>,
      FALSE, FALSE, 10000, 4) @@
  "ARDS" :>
    ConditionEffect("RESPIRATORY_ACIDOSIS", <<50000, 250000>>, <<-20000, 40000>>, <<400000, 700000>>, TRUE, <<300000, 550000>>, <<2800, 4500>>,
      FALSE, <<80000, 120000>>, <<-20000, 20000>>, <<-3000, 3000>>, <<-20000, 20000>>, <<700000, 1100000>>, <<20000, 80000>>,
      FALSE, FALSE, 10000, 4) @@
  "PNEUMONIA" :>
    ConditionEffect("RESPIRATORY_ALKALOSIS", <<-100000, 0>>, <<-20000, 0>>, <<550000, 800000>>, TRUE, <<200000, 400000>>, <<300, 1200>>,
      FALSE, <<80000, 120000>>, <<-20000, 20000>>, <<-3000, 3000>>, <<-20000, 20000>>, <<700000, 1100000>>, <<10000, 40000>>,
      FALSE, FALSE, 10000, 4) @@
  "OPIOID_OVERDOSE" :>
    ConditionEffect("RESPIRATORY_ACIDOSIS", <<150000, 400000>>, <<0, 30000>>, <<400000, 650000>>, FALSE, <<80000, 150000>>, <<0, 0>>,
      FALSE, <<80000, 120000>>, <<-20000, 20000>>, <<-3000, 3000>>, <<-20000, 20000>>, <<700000, 1100000>>, <<15000, 50000>>,
      TRUE, TRUE, 3000, 4) @@
  "HYPERVENTILATION_ANXIETY" :>
    ConditionEffect("RESPIRATORY_ALKALOSIS", <<-200000, -100000>>, <<-40000, -10000>>, <<1000000, 1150000>>, FALSE, <<50000, 120000>>, <<0, 0>>,
      FALSE, <<80000, 120000>>, <<-20000, 20000>>, <<-3000, 3000>>, <<-20000, 20000>>, <<700000, 1100000>>, <<8000, 20000>>,
      FALSE, FALSE, 10000, 4) @@
  "HYPERVENTILATION_PAIN" :>
    ConditionEffect("RESPIRATORY_ALKALOSIS", <<-120000, -50000>>, <<-20000, 0>>, <<900000, 1050000>>, FALSE, <<50000, 120000>>, <<0, 0>>,
      FALSE, <<80000, 120000>>, <<-20000, 20000>>, <<-3000, 3000>>, <<-20000, 20000>>, <<700000, 1100000>>, <<10000, 25000>>,
      FALSE, FALSE, 10000, 3) @@
  "NEUROMUSCULAR_WEAKNESS" :>
    ConditionEffect("RESPIRATORY_ACIDOSIS", <<80000, 250000>>, <<20000, 80000>>, <<600000, 800000>>, FALSE, <<80000, 150000>>, <<0, 0>>,
      FALSE, <<80000, 120000>>, <<-20000, 20000>>, <<-3000, 3000>>, <<-20000, 20000>>, <<700000, 1100000>>, <<5000, 20000>>,
      FALSE, FALSE, 10000, 4) @@
  "DKA" :>
    ConditionEffect("METABOLIC_ACIDOSIS", <<-200000, -80000>>, <<-180000, -100000>>, <<900000, 1100000>>, FALSE, <<50000, 120000>>, <<0, 0>>,
      TRUE, <<200000, 350000>>, <<-80000, 0>>, <<-5000, 20000>>, <<-20000, 20000>>, <<2500000, 8000000>>, <<20000, 50000>>,
      FALSE, TRUE, 18000, 5) @@
  "HHS" :>
    ConditionEffect("METABOLIC_ACIDOSIS", <<-80000, 0>>, <<-80000, -20000>>, <<850000, 1000000>>, FALSE, <<50000, 120000>>, <<0, 0>>,
      TRUE, <<120000, 200000>>, <<0, 150000>>, <<-3000, 3000>>, <<-20000, 20000>>, <<6000000, 12000000>>, <<15000, 40000>>,
      FALSE, FALSE, 10000, 4) @@
  "LACTIC_ACIDOSIS_SEPSIS" :>
    ConditionEffect("METABOLIC_ACIDOSIS", <<-150000, -50000>>, <<-140000, -60000>>, <<600000, 900000>>, TRUE, <<200000, 450000>>, <<500, 2000>>,
      TRUE, <<180000, 300000>>, <<-20000, 20000>>, <<0, 10000>>, <<-20000, 20000>>, <<700000, 1100000>>, <<40000, 150000>>,
      FALSE, FALSE, 10000, 4) @@
  "LACTIC_ACIDOSIS_SHOCK" :>
    ConditionEffect("METABOLIC_ACIDOSIS", <<-180000, -80000>>, <<-160000, -80000>>, <<500000, 800000>>, TRUE, <<250000, 500000>>, <<1000, 2500>>,
      TRUE, <<220000, 350000>>, <<-20000, 20000>>, <<5000, 20000>>, <<-20000, 20000>>, <<700000, 1100000>>, <<60000, 200000>>,
      FALSE, FALSE, 10000, 4) @@
  "LACTIC_ACIDOSIS_SEIZURE" :>
    ConditionEffect("METABOLIC_ACIDOSIS", <<-100000, 0>>, <<-100000, -40000>>, <<700000, 950000>>, FALSE, <<80000, 150000>>, <<0, 0>>,
      TRUE, <<160000, 240000>>, <<-20000, 20000>>, <<3000, 15000>>, <<-20000, 20000>>, <<700000, 1100000>>, <<30000, 100000>>,
      FALSE, FALSE, 10000, 4) @@
  "RENAL_FAILURE_ACUTE" :>
    ConditionEffect("METABOLIC_ACIDOSIS", <<-100000, -30000>>, <<-100000, -40000>>, <<750000, 950000>>, FALSE, <<80000, 150000>>, <<0, 500>>,
      TRUE, <<140000, 220000>>, <<-20000, 20000>>, <<5000, 25000>>, <<-20000, 20000>>, <<700000, 1100000>>, <<10000, 30000>>,
      FALSE, FALSE, 10000, 4) @@
  "RENAL_FAILURE_CHRONIC" :>
    ConditionEffect("METABOLIC_ACIDOSIS", <<-80000, 0>>, <<-80000, -20000>>, <<800000, 1000000>>, FALSE, <<80000, 150000>>, <<0, 0>>,
      TRUE, <<120000, 180000>>, <<-20000, 20000>>, <<0, 15000>>, <<-20000, 20000>>, <<700000, 1100000>>, <<5000, 20000>>,
      FALSE, FALSE, 10000, 4) @@
  "TOXIC_INGESTION_METHANOL" :>
    ConditionEffect("METABOLIC_ACIDOSIS", <<-200000, -100000>>, <<-200000, -120000>>, <<900000, 1050000>>, FALSE, <<50000, 120000>>, <<0, 0>>,
      TRUE, <<250000, 400000>>, <<-20000, 20000>>, <<-3000, 3000>>, <<-20000, 20000>>, <<700000, 1100000>>, <<10000, 30000>>,
      FALSE, FALSE, 10000, 4) @@
  "TOXIC_INGESTION_ETHYLENE_GLYCOL" :>
    ConditionEffect("METABOLIC_ACIDOSIS", <<-200000, -100000>>, <<-200000, -120000>>, <<900000, 1050000>>, FALSE, <<50000, 120000>>, <<0, 0>>,
      TRUE, <<250000, 400000>>, <<-20000, 20000>>, <<-3000, 3000>>, <<-20000, 20000>>, <<700000, 1100000>>, <<10000, 30000>>,
      FALSE, FALSE, 10000, 4) @@
  "TOXIC_INGESTION_SALICYLATE" :>
    ConditionEffect("METABOLIC_ACIDOSIS", <<-150000, -50000>>, <<-120000, -40000>>, <<850000, 1000000>>, FALSE, <<50000, 120000>>, <<0, 0>>,
      TRUE, <<180000, 280000>>, <<-20000, 20000>>, <<-3000, 3000>>, <<-20000, 20000>>, <<600000, 1000000>>, <<20000, 60000>>,
      FALSE, TRUE, 16000, 5) @@
  "STARVATION_KETOSIS" :>
    ConditionEffect("METABOLIC_ACIDOSIS", <<-50000, 0>>, <<-60000, -20000>>, <<900000, 1000000>>, FALSE, <<50000, 120000>>, <<0, 0>>,
      TRUE, <<120000, 180000>>, <<-20000, 20000>>, <<-3000, 3000>>, <<-20000, 20000>>, <<500000, 800000>>, <<5000, 15000>>,
      FALSE, FALSE, 10000, 4) @@
  "ALCOHOLIC_KETOACIDOSIS" :>
    ConditionEffect("METABOLIC_ACIDOSIS", <<-120000, -30000>>, <<-120000, -40000>>, <<850000, 1000000>>, FALSE, <<50000, 120000>>, <<0, 0>>,
      TRUE, <<180000, 280000>>, <<-20000, 20000>>, <<-3000, 3000>>, <<-20000, 20000>>, <<400000, 1500000>>, <<20000, 50000>>,
      FALSE, FALSE, 10000, 5) @@
  "DIARRHEA" :>
    ConditionEffect("METABOLIC_ACIDOSIS", <<-100000, -30000>>, <<-100000, -40000>>, <<900000, 1000000>>, FALSE, <<50000, 120000>>, <<0, 0>>,
      FALSE, <<80000, 120000>>, <<-20000, 20000>>, <<-15000, -3000>>, <<40000, 120000>>, <<700000, 1100000>>, <<5000, 20000>>,
      FALSE, FALSE, 10000, 4) @@
  "RTA_TYPE1" :>
    ConditionEffect("METABOLIC_ACIDOSIS", <<-80000, -20000>>, <<-140000, -60000>>, <<900000, 1000000>>, FALSE, <<50000, 120000>>, <<0, 0>>,
      FALSE, <<80000, 120000>>, <<-20000, 20000>>, <<-15000, -3000>>, <<-20000, 20000>>, <<700000, 1100000>>, <<5000, 20000>>,
      FALSE, FALSE, 10000, 4) @@
  "RTA_TYPE2" :>
    ConditionEffect("METABOLIC_ACIDOSIS", <<-50000, 0>>, <<-80000, -30000>>, <<900000, 1000000>>, FALSE, <<50000, 120000>>, <<0, 0>>,
      FALSE, <<80000, 120000>>, <<-20000, 20000>>, <<-10000, 0>>, <<-20000, 20000>>, <<700000, 1100000>>, <<5000, 20000>>,
      FALSE, FALSE, 10000, 4) @@
  "RTA_TYPE4" :>
    ConditionEffect("METABOLIC_ACIDOSIS", <<-50000, 0>>, <<-60000, -20000>>, <<900000, 1000000>>, FALSE, <<50000, 120000>>, <<0, 0>>,
      FALSE, <<80000, 120000>>, <<-20000, 20000>>, <<5000, 20000>>, <<-20000, 20000>>, <<700000, 1100000>>, <<5000, 20000>>,
      FALSE, FALSE, 10000, 4) @@
  "SALINE_INFUSION" :>
    ConditionEffect("METABOLIC_ACIDOSIS", <<-30000, 0>>, <<-40000, -10000>>, <<900000, 1000000>>, FALSE, <<50000, 120000>>, <<0, 0>>,
      FALSE, <<80000, 120000>>, <<-20000, 20000>>, <<-3000, 3000>>, <<40000, 100000>>, <<700000, 1100000>>, <<5000, 20000>>,
      FALSE, FALSE, 10000, 4) @@
  "VOMITING" :>
    ConditionEffect("METABOLIC_ALKALOSIS", <<20000, 100000>>, <<40000, 140000>>, <<750000, 900000>>, FALSE, <<50000, 120000>>, <<0, 0>>,
      FALSE, <<80000, 120000>>, <<-20000, 20000>>, <<-15000, -5000>>, <<-150000, -50000>>, <<700000, 1100000>>, <<5000, 20000>>,
      FALSE, FALSE, 10000, 5) @@
  "NG_SUCTION" :>
    ConditionEffect("METABOLIC_ALKALOSIS", <<30000, 100000>>, <<40000, 120000>>, <<750000, 900000>>, FALSE, <<50000, 120000>>, <<0, 0>>,
      FALSE, <<80000, 120000>>, <<-20000, 20000>>, <<-12000, -3000>>, <<-120000, -40000>>, <<700000, 1100000>>, <<5000, 20000>>,
      FALSE, FALSE, 10000, 3) @@
  "DIURETIC_USE" :>
    ConditionEffect("METABOLIC_ALKALOSIS", <<20000, 80000>>, <<30000, 100000>>, <<800000, 950000>>, FALSE, <<50000, 120000>>, <<0, 0>>,
      FALSE, <<80000, 120000>>, <<-20000, 20000>>, <<-10000, -3000>>, <<-80000, -20000>>, <<700000, 1100000>>, <<5000, 20000>>,
      FALSE, FALSE, 10000, 4) @@
  "HYPOKALEMIA" :>
    ConditionEffect("METABOLIC_ALKALOSIS", <<20000, 60000>>, <<20000, 80000>>, <<850000, 1000000>>, FALSE, <<50000, 120000>>, <<0, 0>>,
      FALSE, <<80000, 120000>>, <<-20000, 20000>>, <<-15000, -8000>>, <<-20000, 20000>>, <<700000, 1100000>>, <<5000, 20000>>,
      FALSE, FALSE, 10000, 3) @@
  "HYPERALDOSTERONISM" :>
    ConditionEffect("METABOLIC_ALKALOSIS", <<20000, 80000>>, <<40000, 120000>>, <<850000, 1000000>>, FALSE, <<50000, 120000>>, <<0, 0>>,
      FALSE, <<80000, 120000>>, <<20000, 80000>>, <<-12000, -5000>>, <<-20000, 20000>>, <<700000, 1100000>>, <<5000, 20000>>,
      FALSE, FALSE, 10000, 4) @@
  "MILK_ALKALI_SYNDROME" :>
    ConditionEffect("METABOLIC_ALKALOSIS", <<40000, 120000>>, <<60000, 160000>>, <<800000, 950000>>, FALSE, <<50000, 120000>>, <<0, 0>>,
      FALSE, <<80000, 120000>>, <<-20000, 20000>>, <<-3000, 3000>>, <<-20000, 20000>>, <<700000, 1100000>>, <<5000, 20000>>,
      FALSE, FALSE, 10000, 3) @@
  "POST_HYPERCAPNIA" :>
    ConditionEffect("METABOLIC_ALKALOSIS", <<-50000, 50000>>, <<40000, 120000>>, <<800000, 950000>>, FALSE, <<50000, 120000>>, <<0, 0>>,
      FALSE, <<80000, 120000>>, <<-20000, 20000>>, <<-3000, 3000>>, <<-20000, 20000>>, <<700000, 1100000>>, <<5000, 20000>>,
      FALSE, FALSE, 10000, 4) @@
  "HEALTHY" :>
    ConditionEffect("NORMAL", <<-20000, 20000>>, <<-10000, 10000>>, <<900000, 1000000>>, FALSE, <<50000, 120000>>, <<0, 0>>,
      FALSE, <<80000, 120000>>, <<-20000, 20000>>, <<-3000, 3000>>, <<-20000, 20000>>, <<700000, 1100000>>, <<5000, 15000>>,
      FALSE, FALSE, 10000, 2) @@
  "PREGNANCY" :>
    ConditionEffect("RESPIRATORY_ALKALOSIS", <<-100000, -60000>>, <<-40000, -20000>>, <<1000000, 1100000>>, FALSE, <<50000, 120000>>, <<0, 0>>,
      FALSE, <<80000, 120000>>, <<-20000, 20000>>, <<-3000, 3000>>, <<-20000, 20000>>, <<700000, 1100000>>, <<5000, 20000>>,
      FALSE, FALSE, 10000, 4) @@
  "HIGH_ALTITUDE" :>
    ConditionEffect("RESPIRATORY_ALKALOSIS", <<-120000, -50000>>, <<-40000, -10000>>, <<550000, 750000>>, FALSE, <<50000, 120000>>, <<0, 0>>,
      FALSE, <<80000, 120000>>, <<-20000, 20000>>, <<-3000, 3000>>, <<-20000, 20000>>, <<700000, 1100000>>, <<5000, 20000>>,
      FALSE, FALSE, 10000, 4)

-----------------------------------------------------------------------------
(* scenarios/scenario_mapper.py: ScenarioMapper *)

\* PhysiologyDeltas(): the dataclass defaults.
PhysiologyDeltas ==
  [ph_delta |-> 0, pco2_delta |-> 0, hco3_delta |-> 0,
   aa_gradient_elevated |-> FALSE, target_aa_gradient |-> 10 * Unit,
   shunt_fraction |-> 0, po2_target |-> 95 * Unit,
   sodium_delta |-> 0, potassium_delta |-> 0, chloride_delta |-> 0,
   glucose_target |-> 95 * Unit, lactate_target |-> Unit,
   anion_gap_elevated |-> FALSE, target_anion_gap |-> 10 * Unit,
   respiratory_drive_multiplier |-> Unit, compensation_blocked |-> FALSE]

\* The low end of the range whatever the severity.
ScaledLowEnd(range, factor) == range[1]

\* low + (high - low) * factor
Scaled(range, factor) == range[1] + FxMul(range[2] - range[1], factor)

map_single_condition(effects, condition, severity, patient) ==
  Bind(effects[condition], LAMBDA effect :
  Bind(BySeverity(severity, 3300, 6600, Unit), LAMBDA severity_factor :
    [PhysiologyDeltas EXCEPT
         !.pco2_delta = Scaled(effect.pco2_effect, severity_factor),
         !.hco3_delta = Scaled(effect.hco3_effect, severity_factor),
         !.aa_gradient_elevated = effect.aa_gradient_elevated,
         !.target_aa_gradient = Scaled(effect.aa_gradient_range, severity_factor),
         !.shunt_fraction = Scaled(effect.shunt_fraction_range, severity_factor),
         !.po2_target = Scaled(effect.po2_effect, Unit - severity_factor),
         !.sodium_delta = Scaled(effect.sodium_effect, severity_factor),
         !.potassium_delta = Scaled(effect.potassium_effect, severity_factor),
         !.chloride_delta = Scaled(effect.chloride_effect, severity_factor),
         !.glucose_target = Scaled(effect.glucose_effect, severity_factor),
         !.lactate_target = Scaled(effect.lactate_effect, severity_factor),
         !.anion_gap_elevated = effect.anion_gap_elevated,
         !.target_anion_gap =
            IF effect.anion_gap_elevated
            THEN Scaled(effect.typical_anion_gap, severity_factor)
            ELSE @,
         !.respiratory_drive_multiplier =
            IF effect.affects_respiratory_drive
            THEN effect.respiratory_drive_multiplier
            ELSE @,
         !.compensation_blocked = effect.compensation_blocked]))

_combine_deltas(primary, secondary) ==
  [PhysiologyDeltas EXCEPT
     !.pco2_delta = primary.pco2_delta + secondary.pco2_delta,
     !.hco3_delta = primary.hco3_delta + secondary.hco3_delta,
     !.aa_gradient_elevated =
        primary.aa_gradient_elevated \/ secondary.aa_gradient_elevated,
     !.target_aa_gradient =
        Max(primary.target_aa_gradient, secondary.target_aa_gradient),
     !.shunt_fraction =
        Min(5000, Max(primary.shunt_fraction, secondary.shunt_fraction)
                  + MulDiv(Min(primary.shunt_fraction, secondary.shunt_fraction), 1, 2)),
     !.po2_target = Min(primary.po2_target, secondary.po2_target),
     !.sodium_delta = primary.sodium_delta + secondary.sodium_delta,
     !.potassium_delta = primary.potassium_delta + secondary.potassium_delta,
     !.chloride_delta = primary.chloride_delta + secondary.chloride_delta,
     !.glucose_target = Max(primary.glucose_target, secondary.glucose_target),
     !.lactate_target = Max(primary.lactate_target, secondary.lactate_target),
     !.anion_gap_elevated =
        primary.anion_gap_elevated \/ secondary.anion_gap_elevated,
     !.target_anion_gap =
        IF primary.anion_gap_elevated \/ secondary.anion_gap_elevated
        THEN Max(primary.target_anion_gap, secondary.target_anion_gap)
        ELSE @,
     !.respiratory_drive_multiplier =
        FxMul(primary.respiratory_drive_multiplier,
              secondary.respiratory_drive_multiplier),
     !.compensation_blocked =
        primary.compensation_blocked \/ secondary.compensation_blocked]

_has_condition(conditions, target) ==
  \E i \in 1..Len(conditions) : conditions[i] = target

_apply_interaction_rules(deltas, conditions) ==
  Bind(_has_condition(conditions, "OPIOID_OVERDOSE") /\ deltas.hco3_delta < -4 * Unit, LAMBDA opioid_rule :
  Bind(IF opioid_rule
        THEN [deltas EXCEPT
                !.pco2_delta =
                   IF @ < 0 THEN FxMul(@, deltas.respiratory_drive_multiplier) ELSE @,
                !.compensation_blocked = TRUE]
        ELSE deltas, LAMBDA after_opioid :
    IF _has_condition(conditions, "LACTIC_ACIDOSIS_SEPSIS")
      THEN [after_opioid EXCEPT !.respiratory_drive_multiplier = Max(@, 13000)]
      ELSE after_opioid))

\* severities.get(condition, Severity.MODERATE)
SeverityOf(severities, condition) ==
  IF condition \in DOMAIN severities THEN severities[condition] ELSE "MODERATE"

\* The loop "for condition in conditions[1:]" from its i-th element on.
RECURSIVE CombineFrom(_, _, _, _, _, _)
CombineFrom(effects, combined, conditions, severities, patient, i) ==
  IF i > Len(conditions) THEN combined
  ELSE Bind(map_single_condition(effects, conditions[i],
                                  SeverityOf(severities, conditions[i]), patient), LAMBDA additional :
         CombineFrom(effects, _combine_deltas(combined, additional),
                       conditions, severities, patient, i + 1))

\* map_multiple_conditions without the loop over conditions[1:]: only the
\* first condition of the list is mapped.
map_multiple_conditionsFirstOnly(effects, conditions, severities, patient) ==
  IF conditions = <<>> THEN PhysiologyDeltas
  ELSE map_single_condition(effects, conditions[1],
                            SeverityOf(severities, conditions[1]), patient)

map_multiple_conditions(effects, conditions, severities, patient) ==
  IF conditions = <<>> THEN PhysiologyDeltas
  ELSE Bind(map_single_condition(effects, conditions[1],
                                  SeverityOf(severities, conditions[1]), patient), LAMBDA first :
         IF Len(conditions) = 1 THEN first
           ELSE _apply_interaction_rules(
                  CombineFrom(effects, first, conditions, severities, patient, 2),
                  conditions))

-----------------------------------------------------------------------------
(* The module random: one generator state shared by the whole process.     *)
(* The generator is a full-period congruential generator on RngStates      *)
(* states; random() returns state / RngStates.  gauss and normalvariate    *)
(* are the library's algorithms (Box-Muller with a cached second value,    *)
(* Kinderman-Monahan rejection) evaluated on that uniform source.          *)

RngStates == 16

\* The next generator state.
Advance(state) == (5 * state + 3) % RngStates

\* A seed() that sets the state and keeps the cached gauss value.
SeedKeepsGaussNext(rng, seed) ==
  [rng EXCEPT !.state = (7 * seed + 1) % RngStates]

\* random.seed(seed): the state is a function of the seed alone and the
\* cached gauss value is dropped.
Seed(rng, seed) ==
  [rng EXCEPT !.state = (7 * seed + 1) % RngStates, !.gauss_next = NoneNumber]

\* cos(2 pi k / 16), sin(2 pi k / 16), k = 0..15.
CosTable ==
  <<10000, 9239, 7071, 3827, 0, -3827, -7071, -9239,
    -10000, -9239, -7071, -3827, 0, 3827, 7071, 9239>>

SinTable ==
  <<0, 3827, 7071, 9239, 10000, 9239, 7071, 3827,
    0, -3827, -7071, -9239, -10000, -9239, -7071, -3827>>

\* sqrt(-2 ln(1 - k / 16)), k = 0..15.
RadiusTable ==
  <<0, 3593, 5168, 6444, 7585, 8657, 9695, 10727,
    11774, 12858, 14006, 15252, 16651, 18297, 20393, 23548>>

\* -ln(1 - k / 16), k = 0..15.
NegLogTable ==
  <<0, 645, 1335, 2076, 2877, 3747, 4700, 5754,
    6931, 8267, 9808, 11632, 13863, 16740, 20794, 27726>>

\* random.gauss(mu, sigma): <<value, generator after the call>>.
Gauss(rng, mu, sigma) ==
  IF rng.gauss_next # NoneNumber
  THEN <<mu + FxMul(rng.gauss_next, sigma), [rng EXCEPT !.gauss_next = NoneNumber]>>
  ELSE Bind(Advance(rng.state), LAMBDA s1 :
       Bind(Advance(s1), LAMBDA s2 :
       Bind(RadiusTable[s2 + 1], LAMBDA g2rad :
       Bind(FxMul(CosTable[s1 + 1], g2rad), LAMBDA z :
         <<mu + FxMul(z, sigma),
             [state |-> s2, gauss_next |-> FxMul(SinTable[s1 + 1], g2rad)]>>))))

\* The standard normal deviate of random.normalvariate and the generator
\* state after its rejection loop; NV_MAGICCONST = 4 exp(-1/2) / sqrt(2).
RECURSIVE NormalDeviate(_)
NormalDeviate(state) ==
  Bind(Advance(state), LAMBDA s1 :
  Bind(Advance(s1), LAMBDA s2 :
  Bind(MulDiv(17155, s1 - 8, 16 - s2), LAMBDA z :
  Bind(MulDiv(FxMul(z, z), 1, 4), LAMBDA zz :
    IF zz <= NegLogTable[s2 + 1] THEN <<z, s2>> ELSE NormalDeviate(s2)))))

\* log10(e)
Log10E == 4343

\* random.lognormvariate(log(value) - cv^2 / 2, cv)
\*   = value * exp(cv * z - cv^2 / 2) = value * 10^(log10(e) * (cv * z - cv^2 / 2))
LogNormVariate(rng, value, cv) ==
  Bind(NormalDeviate(rng.state), LAMBDA d :
  Bind(FxMul(cv, d[1]) - MulDiv(FxMul(cv, cv), 1, 2), LAMBDA exponent :
  Bind(Pow10(FxMul(Log10E, exponent)), LAMBDA factor :
    <<MulDiv(value, factor, Fine), [rng EXCEPT !.state = d[2]]>>)))

-----------------------------------------------------------------------------
(* physiology/variability.py: VariabilityEngine *)

\* A VariabilityConfig that leaves "enabled" at its default, True.
VariabilityConfigAlwaysEnabled(enabled, seed) ==
  [enabled |-> TRUE, seed |-> seed,
   ph_cv |-> 50, pco2_cv |-> 300, po2_cv |-> 500, hco3_cv |-> 300,
   sodium_cv |-> 150, potassium_cv |-> 500, chloride_cv |-> 200,
   glucose_cv |-> 800, lactate_cv |-> 1000,
   measurement_error |-> TRUE, measurement_error_magnitude |-> 5000]

\* VariabilityConfig(enabled, seed) with the dataclass defaults.
VariabilityConfig(enabled, seed) ==
  [enabled |-> enabled, seed |-> seed,
   ph_cv |-> 50, pco2_cv |-> 300, po2_cv |-> 500, hco3_cv |-> 300,
   sodium_cv |-> 150, potassium_cv |-> 500, chloride_cv |-> 200,
   glucose_cv |-> 800, lactate_cv |-> 1000,
   measurement_error |-> TRUE, measurement_error_magnitude |-> 5000]

\* __init__ with "if self.config.seed:" for "is not None": seed 0 is skipped.
SeedOnInitTruthy(config, rng) ==
  IF config.seed # NoneNumber /\ config.seed # 0 THEN Seed(rng, config.seed) ELSE rng

\* VariabilityEngine.__init__: seeds the shared generator when a seed is
\* given.  The generator after construction.
SeedOnInit(config, rng) ==
  IF config.seed # NoneNumber THEN Seed(rng, config.seed) ELSE rng

\* create_variability_engine(enabled, seed): <<engine config, generator>>.
create_variability_engine(enabled, seed, rng) ==
  Bind(VariabilityConfig(enabled, seed), LAMBDA config :
    <<config, SeedOnInit(config, rng)>>)

\* add_variability with the draw made before "if not self.config.enabled"
\* and "if cv <= 0" are tested: the value is returned unchanged, the
\* generator has advanced.
add_variabilityDrawsFirst(config, rng, value, cv, min_value, max_value, distribution) ==
  IF ~config.enabled \/ cv <= 0 THEN <<value, Gauss(rng, value, 0)[2]>>
  ELSE IF distribution = "lognormal" /\ value <= 0 THEN <<ValueError, rng>>
  ELSE
    Bind(FxMul(Abs(value), cv), LAMBDA sd :
    Bind(IF distribution = "lognormal"
          THEN LogNormVariate(rng, value, cv)
          ELSE Gauss(rng, value, sd), LAMBDA physiological :
    Bind(MulDiv(FxMul(sd, config.measurement_error_magnitude), 1, 2), LAMBDA measurement_sd :
    Bind(IF config.measurement_error
          THEN Gauss(physiological[2], physiological[1], measurement_sd)
          ELSE physiological, LAMBDA measured :
    Bind(IF min_value # NoneNumber THEN Max(measured[1], min_value) ELSE measured[1], LAMBDA bounded_below :
    Bind(IF max_value # NoneNumber THEN Min(bounded_below, max_value) ELSE bounded_below, LAMBDA bounded :
      <<bounded, measured[2]>>))))))

\* add_variability: <<varied value, generator after the call>>.  A
\* ValueError of math.log (value <= 0) is returned as the value.
add_variability(config, rng, value, cv, min_value, max_value, distribution) ==
  IF ~config.enabled THEN <<value, rng>>
  ELSE IF cv <= 0 THEN <<value, rng>>
  ELSE IF distribution = "lognormal" /\ value <= 0 THEN <<ValueError, rng>>
  ELSE
    Bind(FxMul(Abs(value), cv), LAMBDA sd :
    Bind(IF distribution = "lognormal"
          THEN LogNormVariate(rng, value, cv)
          ELSE Gauss(rng, value, sd), LAMBDA physiological :
    Bind(MulDiv(FxMul(sd, config.measurement_error_magnitude), 1, 2), LAMBDA measurement_sd :
    Bind(IF config.measurement_error
          THEN Gauss(physiological[2], physiological[1], measurement_sd)
          ELSE physiological, LAMBDA measured :
    Bind(IF min_value # NoneNumber THEN Max(measured[1], min_value) ELSE measured[1], LAMBDA bounded_below :
    Bind(IF max_value # NoneNumber THEN Min(bounded_below, max_value) ELSE bounded_below, LAMBDA bounded :
      <<bounded, measured[2]>>))))))

vary_ph(config, rng, ph) ==
  add_variability(config, rng, ph, config.ph_cv, 68000, 78000, "normal")

vary_pco2(config, rng, pco2) ==
  add_variability(config, rng, pco2, config.pco2_cv, 10 * Unit, 150 * Unit, "normal")

vary_po2(config, rng, po2) ==
  add_variability(config, rng, po2, config.po2_cv, 20 * Unit, 600 * Unit, "lognormal")

vary_hco3(config, rng, hco3) ==
  add_variability(config, rng, hco3, config.hco3_cv, 4 * Unit, 50 * Unit, "normal")

vary_sodium(config, rng, sodium) ==
  add_variability(config, rng, sodium, config.sodium_cv, 110 * Unit, 180 * Unit, "normal")

vary_potassium(config, rng, potassium) ==
  add_variability(config, rng, potassium, config.potassium_cv, 2 * Unit, 9 * Unit, "normal")

vary_chloride(config, rng, chloride) ==
  add_variability(config, rng, chloride, config.chloride_cv, 80 * Unit, 130 * Unit, "normal")

vary_glucose(config, rng, glucose) ==
  add_variability(config, rng, glucose, config.glucose_cv, 20 * Unit, 1200 * Unit, "lognormal")

vary_lactate(config, rng, lactate) ==
  add_variability(config, rng, lactate, config.lactate_cv, 3000, 25 * Unit, "lognormal")

vary_hemoglobin(config, rng, hemoglobin) ==
  add_variability(config, rng, hemoglobin, 200, 3 * Unit, 22 * Unit, "normal")

vary_sao2(config, rng, sao2) ==
  add_variability(config, rng, sao2, 100, 0, 100 * Unit, "normal")

-----------------------------------------------------------------------------
(* generator.py: the locals of one generate_blood_gas call *)

\* The measured and derived values a call holds; a derived value is
\* NoneNumber until the call has computed it.
Locals(ph, pco2, po2, hco3, lyte_state, hemoglobin, base_excess) ==
  [ph |-> ph, pco2 |-> pco2, po2 |-> po2, hco3 |-> hco3,
   sodium |-> lyte_state.sodium, potassium |-> lyte_state.potassium,
   chloride |-> lyte_state.chloride, glucose |-> lyte_state.glucose,
   lactate |-> lyte_state.lactate, hemoglobin |-> hemoglobin,
   albumin |-> lyte_state.albumin,
   sao2 |-> NoneNumber, base_excess |-> base_excess,
   pao2_fio2_ratio |-> NoneNumber, aa_gradient |-> NoneNumber,
   expected_aa_gradient |-> NoneNumber, anion_gap |-> NoneNumber,
   corrected_anion_gap |-> NoneNumber, delta_gap |-> NoneNumber]

\* "secondary_disorder and secondary_disorder != Disorder.NORMAL"
HasSecondary(secondary_disorder) ==
  secondary_disorder # None /\ secondary_disorder # "NORMAL"

\* _generate_from_disorder up to "# Apply variability": the acid-base state
\* of generate_for_disorder, the state after apply_secondary_disorder, and
\* the values handed to the variability engine.
DisorderTargets(primary_disorder, severity, compensation, secondary_disorder, duration, patient, fio2) ==
  Bind(get_baseline_pco2(patient), LAMBDA baseline_pco2 :
  Bind(get_baseline_hco3(patient), LAMBDA baseline_hco3 :
  Bind(generate_for_disorder(primary_disorder, severity, compensation, duration,
                              baseline_pco2, baseline_hco3), LAMBDA generated :
  Bind(IF HasSecondary(secondary_disorder)
        THEN apply_secondary_disorder(generated, secondary_disorder, "MODERATE")
        ELSE generated, LAMBDA ab_state :
  Bind(primary_disorder = "RESPIRATORY_ACIDOSIS", LAMBDA lung :
  Bind(generate_oxygenation(fio2, ab_state.pco2, patient.age, lung,
                             IF lung THEN 30 * Unit ELSE NoneNumber,
                             IF lung THEN 1000 ELSE 0,
                             ab_state.ph, patient.temperature_celsius), LAMBDA oxy_state :
  Bind(generate_electrolytes(ab_state.hco3, ab_state.ph,
                              primary_disorder = "METABOLIC_ACIDOSIS", NoneNumber,
                              NoneNumber, NoneNumber, NoneNumber, NoneNumber,
                              NoneNumber, get_baseline_albumin(patient)), LAMBDA lyte_state :
    [generated |-> generated, ab_state |-> ab_state,
       deltas |-> PhysiologyDeltas, severities |-> <<>>,
       raw_pco2 |-> ab_state.pco2, raw_hco3 |-> ab_state.hco3,
       raw_ph |-> ab_state.ph,
       locals |-> Locals(ab_state.ph, ab_state.pco2, oxy_state.pao2,
                         ab_state.hco3, lyte_state,
                         get_baseline_hemoglobin(patient), NoneNumber)])))))))

\* The loop "for condition in conditions: if condition not in severities:
\* severities[condition] = Severity.MODERATE" on the dict it is handed.
DefaultSeverities(conditions, severities) ==
  [c \in DOMAIN severities \cup {conditions[i] : i \in 1..Len(conditions)} |->
     SeverityOf(severities, c)]

\* "max(lo, min(hi, x))": the clamp of the scenario targets.
ClampOff(x, lo, hi) == x

Clamp(x, lo, hi) == Max(lo, Min(hi, x))

\* _generate_from_scenarios up to "# Apply variability".
ScenarioTargets(effects, conditions, severities_in, patient, fio2) ==
  Bind(DefaultSeverities(conditions, severities_in), LAMBDA severities :
  Bind(map_multiple_conditions(effects, conditions, severities, patient), LAMBDA deltas :
  Bind(get_baseline_pco2(patient) + deltas.pco2_delta, LAMBDA raw_pco2 :
  Bind(get_baseline_hco3(patient) + deltas.hco3_delta, LAMBDA raw_hco3 :
  Bind(Clamp(raw_pco2, 12 * Unit, 120 * Unit), LAMBDA target_pco2 :
  Bind(Clamp(raw_hco3, 4 * Unit, 50 * Unit), LAMBDA target_hco3 :
  Bind(calculate_ph(target_hco3, target_pco2), LAMBDA raw_ph :
  Bind(Clamp(raw_ph, 68000, 78000), LAMBDA ph :
  Bind(get_baseline_hemoglobin(patient), LAMBDA hemoglobin :
  Bind(calculate_base_excess(ph, target_hco3, hemoglobin), LAMBDA base_excess :
  Bind(generate_oxygenation(fio2, target_pco2, patient.age,
                             deltas.aa_gradient_elevated, deltas.target_aa_gradient,
                             deltas.shunt_fraction, ph, patient.temperature_celsius), LAMBDA oxy_state :
  Bind(generate_electrolytes(target_hco3, ph, deltas.anion_gap_elevated,
                              IF deltas.anion_gap_elevated
                              THEN deltas.target_anion_gap ELSE NoneNumber,
                              140 * Unit + deltas.sodium_delta,
                              4 * Unit + deltas.potassium_delta,
                              NoneNumber, deltas.glucose_target,
                              deltas.lactate_target, get_baseline_albumin(patient)), LAMBDA lyte_state :
    [generated |-> NoAcidBaseState, ab_state |-> NoAcidBaseState,
       deltas |-> deltas, severities |-> severities,
       raw_pco2 |-> raw_pco2, raw_hco3 |-> raw_hco3, raw_ph |-> raw_ph,
       locals |-> Locals(ph, target_pco2, oxy_state.pao2, target_hco3,
                         lyte_state, hemoglobin, base_excess)]))))))))))))

\* Python's None where a dict, a PatientFactors or a result is expected.
NoneDict == [c \in {None} |-> None]

NonePatient == [is_none |-> TRUE]

\* The keyword arguments of generate_blood_gas.
Args(primary_disorder, severity, compensation, secondary_disorder, duration, conditions, condition_severities, patient_factors, fio2, variability_on, seed) ==
  [primary_disorder |-> primary_disorder, severity |-> severity,
   compensation |-> compensation, secondary_disorder |-> secondary_disorder,
   duration |-> duration, conditions |-> conditions,
   condition_severities |-> condition_severities,
   patient_factors |-> patient_factors, fio2 |-> fio2,
   add_variability |-> variability_on, seed |-> seed]

\* "x or default" for an Optional enumeration member.
OrElse(x, default) == IF x = None THEN default ELSE x

\* "condition_severities or {}": None and the empty dict give a fresh dict.
OrEmptyDict(d) == IF d = NoneDict \/ DOMAIN d = {} THEN <<>> ELSE d

\* The statements of _generate_from_disorder with the derived values
\* calculated before the variability passes over the primaries.
DisorderStepsDerivedFirst ==
  << <<"calc", "sao2">>, <<"calc", "base_excess">>,
     <<"calc", "pao2_fio2_ratio">>, <<"calc", "aa_gradient">>,
     <<"calc", "expected_aa_gradient">>,
     <<"calc", "anion_gap">>, <<"calc", "corrected_anion_gap">>,
     <<"calc", "delta_gap">>,
     <<"vary", "ph">>, <<"vary", "pco2">>, <<"vary", "po2">>, <<"vary", "hco3">>,
     <<"vary", "sodium">>, <<"vary", "potassium">>, <<"vary", "chloride">>,
     <<"vary", "glucose">>, <<"vary", "lactate">>, <<"vary", "hemoglobin">>,
     <<"vary", "sao2">> >>

\* The statements of _generate_from_scenarios without the pass over SaO2.
ScenarioStepsNoSaO2Pass ==
  << <<"vary", "ph">>, <<"vary", "pco2">>, <<"vary", "po2">>, <<"vary", "hco3">>,
     <<"vary", "sodium">>, <<"vary", "potassium">>, <<"vary", "chloride">>,
     <<"vary", "glucose">>, <<"vary", "lactate">>, <<"vary", "hemoglobin">>,
     <<"calc", "sao2">>, <<"calc", "base_excess">>,
     <<"calc", "pao2_fio2_ratio">>, <<"calc", "aa_gradient">>,
     <<"calc", "expected_aa_gradient">>,
     <<"calc", "anion_gap">>, <<"calc", "corrected_anion_gap">>,
     <<"calc", "delta_gap">> >>

\* The statements after "# Apply variability", in order, in
\* _generate_from_disorder and in _generate_from_scenarios: a variability
\* pass over a value or the calculation of a derived value.
DisorderSteps ==
  << <<"vary", "ph">>, <<"vary", "pco2">>, <<"vary", "po2">>, <<"vary", "hco3">>,
     <<"vary", "sodium">>, <<"vary", "potassium">>, <<"vary", "chloride">>,
     <<"vary", "glucose">>, <<"vary", "lactate">>, <<"vary", "hemoglobin">>,
     <<"calc", "sao2">>, <<"vary", "sao2">>,
     <<"calc", "base_excess">>,
     <<"calc", "pao2_fio2_ratio">>, <<"calc", "aa_gradient">>,
     <<"calc", "expected_aa_gradient">>,
     <<"calc", "anion_gap">>, <<"calc", "corrected_anion_gap">>,
     <<"calc", "delta_gap">> >>

ScenarioSteps ==
  << <<"vary", "ph">>, <<"vary", "pco2">>, <<"vary", "po2">>, <<"vary", "hco3">>,
     <<"vary", "sodium">>, <<"vary", "potassium">>, <<"vary", "chloride">>,
     <<"vary", "glucose">>, <<"vary", "lactate">>, <<"vary", "hemoglobin">>,
     <<"calc", "sao2">>, <<"vary", "sao2">>,
     <<"calc", "base_excess">>,
     <<"calc", "pao2_fio2_ratio">>, <<"calc", "aa_gradient">>,
     <<"calc", "expected_aa_gradient">>,
     <<"calc", "anion_gap">>, <<"calc", "corrected_anion_gap">>,
     <<"calc", "delta_gap">> >>

\* variability.vary_<field>(value): <<varied value, generator after>>.
Vary(field, config, rng, value) ==
  CASE field = "ph" -> vary_ph(config, rng, value)
    [] field = "pco2" -> vary_pco2(config, rng, value)
    [] field = "po2" -> vary_po2(config, rng, value)
    [] field = "hco3" -> vary_hco3(config, rng, value)
    [] field = "sodium" -> vary_sodium(config, rng, value)
    [] field = "potassium" -> vary_potassium(config, rng, value)
    [] field = "chloride" -> vary_chloride(config, rng, value)
    [] field = "glucose" -> vary_glucose(config, rng, value)
    [] field = "lactate" -> vary_lactate(config, rng, value)
    [] field = "hemoglobin" -> vary_hemoglobin(config, rng, value)
    [] field = "sao2" -> vary_sao2(config, rng, value)

\* The derived value a "calc" statement assigns, from the call's locals.
Calc(field, l, fio2, age) ==
  CASE field = "sao2" -> calculate_sao2_default(l.po2, l.ph)
    [] field = "base_excess" -> calculate_base_excess(l.ph, l.hco3, l.hemoglobin)
    [] field = "pao2_fio2_ratio" -> calculate_pf_ratio(l.po2, fio2)
    [] field = "aa_gradient" -> calculate_aa_gradient(l.po2, l.pco2, fio2)
    [] field = "expected_aa_gradient" -> expected_aa_gradient(age)
    [] field = "anion_gap" -> calculate_anion_gap(l.sodium, l.chloride, l.hco3)
    [] field = "corrected_anion_gap" ->
         correct_anion_gap_for_albumin(l.anion_gap, l.albumin)
    [] field = "delta_gap" -> calculate_delta_gap(l.corrected_anion_gap)

-----------------------------------------------------------------------------
(* interpretation.py: InterpretationEngine *)

\* _identify_primary_disorder with the test for a mixed disorder made
\* before the tests for the single disorders in each branch.
_identify_primary_disorderMixedFirst(ph, pco2, hco3) ==
  IF NORMAL_PH[1] <= ph /\ ph <= NORMAL_PH[2]
  THEN IF pco2 < NORMAL_PCO2[1] /\ hco3 < NORMAL_HCO3[1]
       THEN "Compensated Metabolic Acidosis"
       ELSE IF pco2 > NORMAL_PCO2[2] /\ hco3 > NORMAL_HCO3[2]
       THEN "Compensated Respiratory Acidosis or Metabolic Alkalosis"
       ELSE "Normal"
  ELSE IF ph < NORMAL_PH[1]
  THEN IF pco2 > NORMAL_PCO2[2] /\ hco3 < NORMAL_HCO3[1]
       THEN "Mixed Respiratory and Metabolic Acidosis"
       ELSE IF pco2 > NORMAL_PCO2[2] /\ hco3 <= NORMAL_HCO3[2]
       THEN "Respiratory Acidosis"
       ELSE IF hco3 < NORMAL_HCO3[1] /\ pco2 <= NORMAL_PCO2[2]
       THEN "Metabolic Acidosis"
       ELSE "Acidemia - Mixed Disorder"
  ELSE IF pco2 < NORMAL_PCO2[1] /\ hco3 > NORMAL_HCO3[2]
       THEN "Mixed Respiratory Alkalosis and Metabolic Alkalosis"
       ELSE IF pco2 < NORMAL_PCO2[1] /\ hco3 >= NORMAL_HCO3[1]
       THEN "Respiratory Alkalosis"
       ELSE IF hco3 > NORMAL_HCO3[2] /\ pco2 >= NORMAL_PCO2[1]
       THEN "Metabolic Alkalosis"
       ELSE "Alkalemia - Mixed Disorder"

\* _identify_primary_disorder: the label of the primary disorder.
_identify_primary_disorder(ph, pco2, hco3) ==
  IF NORMAL_PH[1] <= ph /\ ph <= NORMAL_PH[2]
  THEN IF pco2 < NORMAL_PCO2[1] /\ hco3 < NORMAL_HCO3[1]
       THEN "Compensated Metabolic Acidosis"
       ELSE IF pco2 > NORMAL_PCO2[2] /\ hco3 > NORMAL_HCO3[2]
       THEN "Compensated Respiratory Acidosis or Metabolic Alkalosis"
       ELSE "Normal"
  ELSE IF ph < NORMAL_PH[1]
  THEN IF pco2 > NORMAL_PCO2[2] /\ hco3 <= NORMAL_HCO3[2]
       THEN "Respiratory Acidosis"
       ELSE IF hco3 < NORMAL_HCO3[1] /\ pco2 <= NORMAL_PCO2[2]
       THEN "Metabolic Acidosis"
       ELSE IF pco2 > NORMAL_PCO2[2] /\ hco3 < NORMAL_HCO3[1]
       THEN "Mixed Respiratory and Metabolic Acidosis"
       ELSE "Acidemia - Mixed Disorder"
  ELSE IF pco2 < NORMAL_PCO2[1] /\ hco3 >= NORMAL_HCO3[1]
       THEN "Respiratory Alkalosis"
       ELSE IF hco3 > NORMAL_HCO3[2] /\ pco2 >= NORMAL_PCO2[1]
       THEN "Metabolic Alkalosis"
       ELSE IF pco2 < NORMAL_PCO2[1] /\ hco3 > NORMAL_HCO3[2]
       THEN "Mixed Respiratory Alkalosis and Metabolic Alkalosis"
       ELSE "Alkalemia - Mixed Disorder"

\* The substring test "needle in primary" over the labels above.
Contains(primary, needle) ==
  needle \in
    CASE primary = "Normal" -> {"Normal"}
      [] primary = "Compensated Metabolic Acidosis" -> {"Metabolic Acidosis"}
      [] primary = "Compensated Respiratory Acidosis or Metabolic Alkalosis" ->
           {"Respiratory Acidosis", "Metabolic Alkalosis"}
      [] primary = "Respiratory Acidosis" -> {"Respiratory Acidosis"}
      [] primary = "Metabolic Acidosis" -> {"Metabolic Acidosis"}
      [] primary = "Mixed Respiratory and Metabolic Acidosis" -> {"Metabolic Acidosis"}
      [] primary = "Respiratory Alkalosis" -> {"Respiratory Alkalosis"}
      [] primary = "Metabolic Alkalosis" -> {"Metabolic Alkalosis"}
      [] primary = "Mixed Respiratory Alkalosis and Metabolic Alkalosis" ->
           {"Respiratory Alkalosis", "Metabolic Alkalosis"}
      [] OTHER -> {}

\* The three-way comparison of a value with its expected window: the
\* status and the secondary disorder when the value is below or above it.
AgainstWindow(value, expected, below, above) ==
  IF value < expected[1] THEN below
  ELSE IF value > expected[2] THEN above
  ELSE <<"Appropriate", None>>

\* _assess_compensation: <<status, secondary>>.
_assess_compensation(pco2, hco3, primary) ==
  IF Contains(primary, "Normal") THEN <<"N/A", None>>
  ELSE IF Contains(primary, "Metabolic Acidosis")
  THEN AgainstWindow(pco2, expected_pco2_metabolic_acidosis(hco3),
                     <<"Excessive", "Respiratory Alkalosis">>,
                     <<"Inadequate", "Respiratory Acidosis">>)
  ELSE IF Contains(primary, "Metabolic Alkalosis")
  THEN AgainstWindow(pco2, expected_pco2_metabolic_alkalosis(hco3),
                     <<"Inadequate", "Respiratory Alkalosis">>,
                     <<"Excessive", "Respiratory Acidosis">>)
  ELSE IF Contains(primary, "Respiratory Acidosis")
  THEN AgainstWindow(hco3,
                     IF hco3 > 30 * Unit
                     THEN expected_hco3_respiratory_acidosis_chronic(pco2)
                     ELSE expected_hco3_respiratory_acidosis_acute(pco2),
                     <<"Inadequate", "Metabolic Acidosis">>,
                     <<"Excessive", "Metabolic Alkalosis">>)
  ELSE IF Contains(primary, "Respiratory Alkalosis")
  THEN AgainstWindow(hco3,
                     IF hco3 < 18 * Unit
                     THEN expected_hco3_respiratory_alkalosis_chronic(pco2)
                     ELSE expected_hco3_respiratory_alkalosis_acute(pco2),
                     <<"Excessive", "Metabolic Acidosis">>,
                     <<"Inadequate", "Metabolic Alkalosis">>)
  ELSE <<"Mixed", None>>

\* _analyze_oxygenation: the status, with the FiO2 it quotes when the
\* patient is on supplemental oxygen.
_analyze_oxygenation(result) ==
  IF result.fio2 = 2100
  THEN [level |-> IF result.po2 >= 80 * Unit THEN "Normal"
                  ELSE IF result.po2 >= 60 * Unit THEN "Mild hypoxemia"
                  ELSE IF result.po2 >= 40 * Unit THEN "Moderate hypoxemia"
                  ELSE "Severe hypoxemia",
        on_fio2 |-> NoneNumber]
  ELSE [level |-> IF result.pao2_fio2_ratio < 100 * Unit THEN "Severe hypoxemia"
                  ELSE IF result.pao2_fio2_ratio < 200 * Unit THEN "Moderate hypoxemia"
                  ELSE IF result.pao2_fio2_ratio < 300 * Unit THEN "Mild hypoxemia"
                  ELSE "On O2",
        on_fio2 |-> result.fio2]

\* _analyze_anion_gap: <<status, delta-delta finding>>.
_analyze_anion_gap(result) ==
  Bind(24 * Unit - result.hco3, LAMBDA delta_hco3 :
  Bind(delta_hco3 > 0 /\ result.delta_gap > 0, LAMBDA has_ratio :
  Bind(FxDiv(result.delta_gap, delta_hco3), LAMBDA delta_ratio :
  Bind(IF result.corrected_anion_gap > 14 * Unit THEN "Elevated"
        ELSE IF result.corrected_anion_gap < 6 * Unit THEN "Low"
        ELSE "Normal", LAMBDA status :
    <<status,
        IF status = "Elevated" /\ has_ratio
        THEN IF delta_ratio < Unit THEN "non-anion gap metabolic acidosis"
             ELSE IF delta_ratio > 2 * Unit THEN "metabolic alkalosis"
             ELSE "pure HAGMA"
        ELSE None>>))))

_determine_severity(result) ==
  Bind(result.ph, LAMBDA ph :
  Bind(result.po2, LAMBDA po2 :
    IF ph < 71000 \/ ph > 76000 THEN "CRITICAL"
      ELSE IF po2 < 40 * Unit /\ result.fio2 = 2100 THEN "CRITICAL"
      ELSE IF ph < 72000 \/ ph > 75500 THEN "SEVERE"
      ELSE IF po2 < 50 * Unit THEN "SEVERE"
      ELSE IF ph < 73000 \/ ph > 75000 THEN "MODERATE"
      ELSE IF po2 < 60 * Unit THEN "MODERATE"
      ELSE IF ph < 73500 \/ ph > 74500 THEN "MILD"
      ELSE IF po2 < 80 * Unit THEN "MILD"
      ELSE "NORMAL"))

\* Whether some listed condition's record has compensation_blocked set.
AnyBlocked(effects, conditions) ==
  \E i \in 1..Len(conditions) : effects[conditions[i]].compensation_blocked

\* _generate_implications: the implications, in order of appending.
_generate_implications(result, primary, secondary, conditions, effects) ==
  (IF result.ph < 72000 THEN <<"severe acidemia">>
   ELSE IF result.ph > 75500 THEN <<"severe alkalemia">> ELSE <<>>)
  \o (IF result.po2 < 60 * Unit THEN <<"significant hypoxemia">> ELSE <<>>)
  \o (IF result.lactate > 4 * Unit THEN <<"elevated lactate">> ELSE <<>>)
  \o (IF result.corrected_anion_gap > 20 * Unit THEN <<"high anion gap">> ELSE <<>>)
  \o (IF result.potassium > 6 * Unit THEN <<"hyperkalemia">>
      ELSE IF result.potassium < 3 * Unit THEN <<"severe hypokalemia">> ELSE <<>>)
  \o (IF secondary # None THEN <<"mixed disorder">> ELSE <<>>)
  \o (IF conditions # None /\ AnyBlocked(effects, conditions)
      THEN <<"respiratory compensation impaired">> ELSE <<>>)

\* The teaching points of the listed conditions, one <<condition, k>> for
\* the k-th point of a condition's record.
RECURSIVE ConditionPoints(_, _, _)
ConditionPoints(effects, conditions, i) ==
  IF i > Len(conditions) THEN <<>>
  ELSE [k \in 1..effects[conditions[i]].teaching_points |-> <<conditions[i], k>>]
       \o ConditionPoints(effects, conditions, i + 1)

_gather_teaching_points(result, primary, conditions, effects) ==
  << <<"general", "approach">> >>
  \o (IF conditions # None THEN ConditionPoints(effects, conditions, 1) ELSE <<>>)
  \o (IF Contains(primary, "Metabolic Acidosis")
      THEN IF result.corrected_anion_gap > 14 * Unit
           THEN << <<"general", "MUDPILES">> >>
           ELSE << <<"general", "normal anion gap acidosis">> >>
      ELSE <<>>)
  \o (IF result.aa_gradient > result.expected_aa_gradient + 10 * Unit
      THEN << <<"general", "elevated A-a gradient">> >> ELSE <<>>)
  \o (IF result.delta_gap > 6 * Unit /\ 24 * Unit - result.hco3 > 0
      THEN Bind(FxDiv(result.delta_gap, 24 * Unit - result.hco3), LAMBDA delta_ratio :
             IF delta_ratio < Unit \/ delta_ratio > 2 * Unit
               THEN << <<"general", "delta-delta">> >> ELSE <<>>)
      ELSE <<>>)

\* InterpretationEngine.interpret(result, conditions)
interpret(result, conditions, effects) ==
  Bind(_identify_primary_disorder(result.ph, result.pco2, result.hco3), LAMBDA primary_disorder :
  Bind(_assess_compensation(result.pco2, result.hco3, primary_disorder), LAMBDA compensation :
  Bind(_analyze_anion_gap(result), LAMBDA anion_gap :
    [primary_disorder |-> primary_disorder,
       compensation_status |-> compensation[1],
       secondary_disorder |-> compensation[2],
       oxygenation_status |-> _analyze_oxygenation(result),
       anion_gap_status |-> anion_gap[1],
       delta_delta_analysis |-> anion_gap[2],
       severity |-> _determine_severity(result),
       clinical_implications |->
         _generate_implications(result, primary_disorder, compensation[2],
                                conditions, effects),
       teaching_points |->
         _gather_teaching_points(result, primary_disorder, conditions, effects),
       generating_conditions |-> IF conditions # None THEN conditions ELSE <<>>])))

-----------------------------------------------------------------------------
(* generator.py: generate_blood_gas *)

\* The dict a call leaves in the caller's hands: the defaulting loop of
\* _generate_from_scenarios writes into the caller's dict when
\* "condition_severities or {}" is that dict, into a fresh one otherwise.
CallerDictAfter(args, severities) ==
  IF args.conditions = None \/ args.condition_severities = NoneDict
     \/ DOMAIN args.condition_severities = {}
  THEN args.condition_severities
  ELSE severities

\* GenerationParams as generate_blood_gas fills it in, after the
\* generation: severity_names reads "condition_severities or {}" again.
GenerationParams(args, patient, caller_dict) ==
  [mode |-> IF args.conditions # None THEN "scenario" ELSE "disorder",
   primary_disorder |-> args.primary_disorder,
   secondary_disorder |-> args.secondary_disorder,
   specified_compensation |-> args.compensation,
   conditions |-> IF args.conditions # None THEN args.conditions ELSE <<>>,
   condition_severities |->
     IF args.conditions # None THEN OrEmptyDict(caller_dict) ELSE <<>>,
   patient_age |-> patient.age,
   chronic_conditions |-> patient.chronic_conditions,
   fio2 |-> args.fio2,
   altitude_meters |-> 0,
   seed |-> args.seed]

\* PatientFactors(): the dataclass defaults.
DefaultPatient == PatientFactors(40, {}, NoneNumber, NoneNumber, FALSE)

\* The statements after "# Apply variability" of the mode the call is in.
StepsOf(args) == IF args.conditions # None THEN ScenarioSteps ELSE DisorderSteps

\* generate_blood_gas from its entry to "# Apply variability": the patient
\* defaulted, the variability engine created (which seeds the shared
\* generator when a seed is given), the mode chosen and the pre-noise
\* values computed.  <<frame of the call, generator after>>.
Enter(args, effects, rng) ==
  Bind(IF args.patient_factors = NonePatient THEN DefaultPatient
        ELSE args.patient_factors, LAMBDA patient :
  Bind(create_variability_engine(args.add_variability, args.seed, rng), LAMBDA engine :
  Bind(IF args.conditions # None
        THEN ScenarioTargets(effects, args.conditions,
                             OrEmptyDict(args.condition_severities),
                             patient, args.fio2)
        ELSE DisorderTargets(OrElse(args.primary_disorder, "NORMAL"),
                             OrElse(args.severity, "MODERATE"),
                             args.compensation, args.secondary_disorder,
                             args.duration, patient, args.fio2), LAMBDA targets :
    <<[args |-> args, patient |-> patient, config |-> engine[1],
         targets |-> [targets EXCEPT !.locals = NoneNumber],
         locals |-> targets.locals, pc |-> 1, trace |-> <<>>],
        engine[2]>>)))

\* One statement of the variability section: <<frame, generator>> after it.
\* The trace records the statement.
Step(frame, rng) ==
  Bind(StepsOf(frame.args)[frame.pc], LAMBDA step :
  Bind(step[2], LAMBDA field :
  Bind(Vary(field, frame.config, rng, frame.locals[field]), LAMBDA varied :
  Bind(IF step[1] = "vary" THEN varied[1]
        ELSE Calc(field, frame.locals, frame.args.fio2, frame.patient.age), LAMBDA value :
    <<[frame EXCEPT !.locals[field] = value,
                      !.pc = @ + 1,
                      !.trace = Append(@, step)],
        IF step[1] = "vary" THEN varied[2] ELSE rng>>))))

Finished(frame) == frame.pc > Len(StepsOf(frame.args))

RECURSIVE RunToEnd(_, _)
RunToEnd(frame, rng) ==
  IF Finished(frame) THEN <<frame, rng>>
  ELSE Bind(Step(frame, rng), LAMBDA next :
         RunToEnd(next[1], next[2]))

\* The BloodGasResult a finished call returns, with its generation_params
\* and its interpretation.
Return(frame, effects) ==
  Bind(frame.locals, LAMBDA l :
  Bind([ph |-> l.ph, pco2 |-> l.pco2, po2 |-> l.po2, hco3 |-> l.hco3,
         base_excess |-> l.base_excess, sao2 |-> l.sao2,
         fio2 |-> frame.args.fio2, pao2_fio2_ratio |-> l.pao2_fio2_ratio,
         aa_gradient |-> l.aa_gradient,
         expected_aa_gradient |-> l.expected_aa_gradient,
         sodium |-> l.sodium, potassium |-> l.potassium,
         chloride |-> l.chloride, glucose |-> l.glucose,
         anion_gap |-> l.anion_gap,
         corrected_anion_gap |-> l.corrected_anion_gap,
         delta_gap |-> l.delta_gap, lactate |-> l.lactate,
         hemoglobin |-> l.hemoglobin, albumin |-> l.albumin], LAMBDA measured :
    [values |-> measured,
       generation_params |->
         GenerationParams(frame.args, frame.patient,
                          CallerDictAfter(frame.args, frame.targets.severities)),
       interpretation |-> interpret(measured, frame.args.conditions, effects)]))

\* generate_blood_gas(**args) run alone on the generator rng: the finished
\* frame, the result and the generator it leaves.
generate_blood_gas(args, effects, rng) ==
  Bind(Enter(args, effects, rng), LAMBDA entered :
  Bind(RunToEnd(entered[1], entered[2]), LAMBDA ended :
    [frame |-> ended[1], result |-> Return(ended[1], effects), rng |-> ended[2]]))

-----------------------------------------------------------------------------
(* The program state *)

VARIABLES
  rng,                \* the state of the module random, shared by every call
  CONDITION_EFFECTS,  \* the condition catalog of clinical_conditions.py
  last,               \* the last finished call: arguments, frame, result
  remembered,         \* an earlier finished call, kept for comparison
  threads,            \* the calls in progress on concurrent threads
  applied             \* the last application of one of the engines' functions

vars == <<rng, CONDITION_EFFECTS, last, remembered, threads, applied>>

\* No function of the engines has been applied on its own.
NotApplied == [op |-> "none"]

\* No call has finished yet / no call is kept.
NoCall == [called |-> FALSE]

\* A finished call.
Call(args, done) ==
  [called |-> TRUE, args |-> args, frame |-> done.frame, result |-> done.result]

\* Seeds a caller passes: 0..MaxSeed.
MaxSeed == 1

Seeds == 0..MaxSeed

\* The generator states a process can be in when no call has seeded it:
\* any state, with or without a cached gauss value.
RngStatesAtStart ==
  {[state |-> s, gauss_next |-> g] :
     s \in {0, 5}, g \in {NoneNumber, 10727}}

\* A call whose result the caller expects to be repeatable: it passes a
\* seed or it disables variability.
Repeatable(args) == args.seed # NoneNumber \/ ~args.add_variability

\* A finished call an observer keeps, and whether calls with other
\* arguments have been made since.
Kept(args, done) ==
  [called |-> TRUE, args |-> args, result |-> done.result, others |-> FALSE]

\* The return of a call: the generator is left as the call's draws left
\* it, the result is handed to the caller.  may_keep: the observer may keep
\* this call for later comparison.
Returned(args, done, may_keep) ==
  /\ rng' = done.rng
  /\ last' = Call(args, done)
  /\ \E keep \in {FALSE, may_keep} :
       remembered' =
         IF keep THEN Kept(args, done)
         ELSE IF remembered.called /\ args # remembered.args
              THEN [remembered EXCEPT !.others = TRUE]
              ELSE remembered
  /\ UNCHANGED <<CONDITION_EFFECTS, threads, applied>>

\* generate_blood_gas(**args) from entry to return on the one thread of the
\* program.
Generate(args, may_keep) ==
  Returned(args, generate_blood_gas(args, CONDITION_EFFECTS, rng), may_keep)

-----------------------------------------------------------------------------
(* A session: calls one after another, from the arguments a test or an    *)
(* application passes.                                                     *)

\* Disorder-mode calls of the session.
SessionDisorderArgs ==
  {Args(d, "MODERATE", "APPROPRIATE", None, "ACUTE", None, NoneDict,
        NonePatient, 2100, v, seed) :
     d \in {"METABOLIC_ACIDOSIS"},
     v \in BOOLEAN, seed \in Seeds \cup {NoneNumber}}

\* Scenario-mode calls of the session.
SessionScenarioArgs ==
  {Args(None, None, "APPROPRIATE", None, "ACUTE", <<"DKA", "OPIOID_OVERDOSE">>,
        dict, NonePatient, 4000, v, seed) :
     dict \in {[c \in {"DKA"} |-> "SEVERE"]},
     v \in BOOLEAN, seed \in {0, NoneNumber}}

SessionArgs == SessionDisorderArgs \cup SessionScenarioArgs

Init ==
  /\ rng \in RngStatesAtStart
  /\ CONDITION_EFFECTS = CatalogAtImport
  /\ last = NoCall
  /\ remembered = NoCall
  /\ threads = <<>>
  /\ applied = NotApplied

\* A call of the session; the observer may keep the first repeatable call
\* it sees.
GenerateBloodGas ==
  \E args \in SessionArgs :
    Generate(args, remembered = NoCall /\ Repeatable(args))

Next == GenerateBloodGas

Spec == Init /\ [][Next]_vars

-----------------------------------------------------------------------------
(* Properties of a session *)

\* The result of generate_blood_gas(**args) as the first call of a process.
FirstCallOfProcess(args) ==
  generate_blood_gas(args, CatalogAtImport,
                     [state |-> 0, gauss_next |-> NoneNumber]).result

\* C2: two calls made one after the other with identical arguments and the
\* same seed (seed 0 included) return identical numeric fields, whatever
\* calls drew from the shared generator in between.
C2_SeededCallsRepeat ==
  (/\ remembered.called
   /\ last.called
   /\ last.args = remembered.args
   /\ last.args.seed # NoneNumber)
  => last.result.values = remembered.result.values

\* A seeded call with variability is repeated, with seed 0, after calls
\* with other arguments have drawn from the generator.
C2_Witness ==
  /\ remembered.called
  /\ remembered.others
  /\ last.args = remembered.args
  /\ last.args.seed = 0
  /\ last.args.add_variability
  /\ last.result.values = remembered.result.values
  /\ last.result.values # FirstCallOfProcess([last.args EXCEPT !.add_variability = FALSE]).values

\* C4: with variability disabled the result is a function of the arguments
\* alone: after any sequence of earlier calls, of either mode, the call
\* returns the values it returns as the first call of a process and the
\* values an earlier call with the same arguments returned, and the
\* condition catalog is as it was at import.
C4_QuietCallsAreStateless ==
  /\ CONDITION_EFFECTS = CatalogAtImport
  /\ (last.called /\ ~last.args.add_variability) =>
       /\ last.result.values = FirstCallOfProcess(last.args).values
       /\ (remembered.called /\ remembered.args = last.args) =>
            last.result.values = remembered.result.values

\* A call without variability is repeated after calls with other arguments,
\* which left the generator in another state than the first one found.
C4_Witness ==
  /\ remembered.called
  /\ remembered.others
  /\ last.args = remembered.args
  /\ ~last.args.add_variability
  /\ last.args.conditions # None
  /\ last.result.values = remembered.result.values
  /\ rng.state # 0

-----------------------------------------------------------------------------
(* Single calls: the first call of a process, over the argument space.     *)

\* Patients: the default adult and the baselines that move pCO2 and HCO3.
Patients ==
  {NonePatient,
   PatientFactors(70, {"COPD"}, NoneNumber, NoneNumber, FALSE),
   PatientFactors(55, {"OBESITY_HYPOVENTILATION"}, NoneNumber, NoneNumber, FALSE),
   PatientFactors(30, {}, NoneNumber, NoneNumber, TRUE),
   PatientFactors(60, {"CHRONIC_KIDNEY_DISEASE", "CIRRHOSIS"}, NoneNumber, 25000, FALSE)}

\* Disorder-mode calls without a secondary disorder, variability disabled.
PrimaryOnlyArgs ==
  {Args(d, s, c, None, t, None, NoneDict, p, 2100, FALSE, NoneNumber) :
     d \in Disorder, s \in Severity, c \in Compensation, t \in Duration,
     p \in Patients}

\* Disorder-mode calls with a secondary disorder, variability disabled.
SecondaryArgs ==
  {Args(d, s, c, d2, "ACUTE", None, NoneDict, p, 2100, FALSE, NoneNumber) :
     d \in Disorder \ {"NORMAL"}, s \in Severity, c \in {"NONE", "APPROPRIATE"},
     d2 \in Disorder,
     p \in {NonePatient,
            PatientFactors(55, {"OBESITY_HYPOVENTILATION"}, NoneNumber, NoneNumber, FALSE)}}

\* Disorder-mode calls that leave primary_disorder and severity out.
DefaultedArgs ==
  {Args(None, s, "APPROPRIATE", None, "ACUTE", None, NoneDict, NonePatient,
        2100, FALSE, NoneNumber) : s \in {None, "SEVERE"}}

\* Disorder-mode calls with variability, seeded or not.
NoisyDisorderArgs ==
  {Args(d, s, c, d2, "ACUTE", None, NoneDict, NonePatient, f, TRUE, seed) :
     d \in {"METABOLIC_ACIDOSIS", "RESPIRATORY_ALKALOSIS"}, s \in {"MILD", "SEVERE"},
     c \in {"NONE", "APPROPRIATE"}, d2 \in {None, "METABOLIC_ALKALOSIS"},
     f \in {2100, 10000}, seed \in Seeds \cup {NoneNumber}}

\* Disorder-mode calls whose PaO2 rests on its floor: on a hypoxic gas
\* mixture (FiO2 0.05), and in severe respiratory acidosis on room air,
\* with and without variability.
HypoxicDisorderArgs ==
  {Args(d, "SEVERE", "NONE", None, "ACUTE", None, NoneDict, NonePatient, 500, v, 1) :
     d \in {"NORMAL", "RESPIRATORY_ACIDOSIS"}, v \in BOOLEAN}
  \cup {Args("RESPIRATORY_ACIDOSIS", "SEVERE", "NONE", None, "ACUTE", None, NoneDict,
             NonePatient, 2100, TRUE, seed) : seed \in Seeds}

DisorderModeArgs ==
  PrimaryOnlyArgs \cup SecondaryArgs \cup DefaultedArgs \cup NoisyDisorderArgs
  \cup HypoxicDisorderArgs

\* Condition lists have 1..MaxConditions entries, repeats allowed.
MaxConditions == 2

\* The conditions of the lists: the strongest effects of the catalog in
\* each direction, and the ones the interaction rules name.
ListedConditions ==
  {"DKA", "OPIOID_OVERDOSE", "TOXIC_INGESTION_METHANOL", "MILK_ALKALI_SYNDROME",
   "VOMITING", "HYPERVENTILATION_ANXIETY", "COPD_EXACERBATION",
   "LACTIC_ACIDOSIS_SEPSIS", "TOXIC_INGESTION_SALICYLATE", "HEALTHY"}

RECURSIVE ListsOfLength(_)
ListsOfLength(n) ==
  IF n = 0 THEN {<<>>}
  ELSE {Append(l, c) : l \in ListsOfLength(n - 1), c \in ListedConditions}

ConditionLists == UNION {ListsOfLength(n) : n \in 1..MaxConditions}

\* The condition_severities a caller passes for a list: none, an empty
\* dict, one severity for every condition, or a severity for the first only.
SeverityDicts(conditions) ==
  {NoneDict, <<>>}
  \cup {[c \in {conditions[i] : i \in 1..Len(conditions)} |-> s] : s \in {"MILD", "SEVERE"}}
  \cup {[c \in {conditions[1]} |-> "SEVERE"]}

\* Scenario-mode calls, variability disabled.
QuietScenarioArgs ==
  {Args(None, None, "APPROPRIATE", None, "ACUTE", l[1], l[2], p, 2100, FALSE, NoneNumber) :
     l \in UNION {{<<cs, dict>> : dict \in SeverityDicts(cs)} : cs \in ConditionLists},
     p \in {NonePatient,
            PatientFactors(70, {"COPD"}, NoneNumber, NoneNumber, FALSE),
            PatientFactors(55, {"OBESITY_HYPOVENTILATION"}, NoneNumber, NoneNumber, FALSE)}}

\* Scenario-mode calls with variability, seeded or not.
NoisyScenarioArgs ==
  {Args(None, None, "APPROPRIATE", None, "ACUTE", cs, dict, NonePatient, 4000, TRUE, seed) :
     cs \in {<<"DKA">>, <<"OPIOID_OVERDOSE", "OPIOID_OVERDOSE">>,
             <<"MILK_ALKALI_SYNDROME", "VOMITING">>, <<"HEALTHY">>},
     dict \in {NoneDict, [c \in {"DKA", "OPIOID_OVERDOSE", "VOMITING"} |-> "SEVERE"]},
     seed \in Seeds \cup {NoneNumber}}

\* Scenario-mode calls with the empty list of conditions, and calls on a
\* hypoxic gas mixture (FiO2 0.05).
EmptyAndHypoxicScenarioArgs ==
  {Args(None, None, "APPROPRIATE", None, "ACUTE", cs, NoneDict, NonePatient, f, v, 1) :
     cs \in {<<>>, <<"OPIOID_OVERDOSE">>, <<"DKA">>}, f \in {500, 2100}, v \in BOOLEAN}

\* Scenario-mode calls with DKA and an opioid overdose together, each at
\* its own severity, in either order of the list.
DkaWithOpioidArgs ==
  {Args(None, None, "APPROPRIATE", None, "ACUTE", cs,
        [c \in {"DKA", "OPIOID_OVERDOSE"} |-> IF c = "DKA" THEN s_dka ELSE s_opioid],
        p, 2100, FALSE, NoneNumber) :
     cs \in {<<"DKA", "OPIOID_OVERDOSE">>, <<"OPIOID_OVERDOSE", "DKA">>},
     s_dka \in Severity, s_opioid \in Severity,
     p \in {NonePatient,
            PatientFactors(70, {"COPD"}, NoneNumber, NoneNumber, FALSE),
            PatientFactors(30, {}, NoneNumber, NoneNumber, TRUE)}}

\* Patients whose albumin the caller knows: low, high, and as high as a
\* float the dataclass accepts (10 g/dL), where the correction of the anion
\* gap takes 15 mEq/L off.
KnownAlbuminPatients ==
  {PatientFactors(50, {}, NoneNumber, alb, FALSE) : alb \in {10000, 60000, 100000}}

\* Scenario-mode calls with DKA alone at severity SEVERE.
SevereDkaArgs ==
  {Args(None, None, "APPROPRIATE", None, "ACUTE", <<"DKA">>, [c \in {"DKA"} |-> "SEVERE"],
        p, f, FALSE, NoneNumber) :
     p \in Patients \cup KnownAlbuminPatients, f \in {2100, 10000}}

\* Scenario-mode calls with two conditions that both depress ventilation,
\* at the same severity, in either order of the list, on room air and on
\* pure oxygen.
HypoventilationArgs ==
  {Args(None, None, "APPROPRIATE", None, "ACUTE", cs,
        [c \in {"COPD_EXACERBATION", "OPIOID_OVERDOSE"} |-> s],
        NonePatient, f, FALSE, NoneNumber) :
     cs \in {<<"COPD_EXACERBATION", "OPIOID_OVERDOSE">>,
             <<"OPIOID_OVERDOSE", "COPD_EXACERBATION">>},
     s \in Severity, f \in {2100, 10000}}

ScenarioModeArgs ==
  QuietScenarioArgs \cup NoisyScenarioArgs \cup EmptyAndHypoxicScenarioArgs
  \cup DkaWithOpioidArgs \cup SevereDkaArgs \cup HypoventilationArgs

\* The first call of the process is made in disorder mode.
CallDisorderMode ==
  /\ last = NoCall
  /\ \E args \in DisorderModeArgs : Generate(args, FALSE)

\* The first call of the process is made in scenario mode.
CallScenarioMode ==
  /\ last = NoCall
  /\ \E args \in ScenarioModeArgs : Generate(args, FALSE)

NextCall == CallDisorderMode \/ CallScenarioMode

SpecCall == Init /\ [][NextCall]_vars

-----------------------------------------------------------------------------
(* Properties of a single call *)

\* The measured values of the last call's result.
Values == last.result.values

DisorderMode == last.called /\ last.args.conditions = None

ScenarioMode == last.called /\ last.args.conditions # None

\* C1: every disorder-mode call with compensation APPROPRIATE, no secondary
\* disorder and variability disabled is interpreted with compensation
\* status "Appropriate", whatever the disorder, severity, duration and
\* patient.
C1_AppropriateIsRecognised ==
  (/\ DisorderMode
   /\ last.args.compensation = "APPROPRIATE"
   /\ ~HasSecondary(last.args.secondary_disorder)
   /\ ~last.args.add_variability)
  => last.result.interpretation.compensation_status = "Appropriate"

\* The derived values of a result.
DerivedFields ==
  {"sao2", "base_excess", "pao2_fio2_ratio", "aa_gradient",
   "expected_aa_gradient", "anion_gap", "corrected_anion_gap", "delta_gap"}

\* C5: in every result, of either mode, with or without variability, the
\* derived fields are the stated functions of the result's own final
\* primaries: anion gap = Na - (Cl + HCO3), corrected gap = gap +
\* 2.5 * (4 - albumin), delta gap = corrected gap - 12, P/F = pO2 / FiO2 and
\* A-a gradient = FiO2 * (760 - 47) - pCO2 / 0.8 - pO2.
C5_DerivedFromFinalPrimaries ==
  last.called =>
    /\ Values.anion_gap = Values.sodium - (Values.chloride + Values.hco3)
    /\ Values.corrected_anion_gap
         = Values.anion_gap + MulDiv(25, 4 * Unit - Values.albumin, 10)
    /\ Values.delta_gap = Values.corrected_anion_gap - 12 * Unit
    /\ Values.pao2_fio2_ratio = FxDiv(Values.po2, Values.fio2)
    /\ Values.aa_gradient
         = FxMul(Values.fio2, (760 - 47) * Unit) - MulDiv(Values.pco2, 10, 8)
           - Values.po2

\* A call with variability whose primaries were perturbed, in each mode.
C5_Witness ==
  /\ last.called
  /\ last.args.add_variability
  /\ Values.hco3 # last.frame.targets.raw_hco3
  /\ Values.sodium # 140 * Unit
  /\ Values.anion_gap = Values.sodium - (Values.chloride + Values.hco3)

\* The variability passes a field receives after it has been calculated.
PassesAfterCalc(trace, field) ==
  Cardinality({i \in 1..Len(trace) :
                 /\ trace[i] = <<"vary", field>>
                 /\ \E j \in 1..(i - 1) : trace[j] = <<"calc", field>>})

\* C6 as stated: after the recomputation SaO2 and base excess each receive
\* exactly one further variability pass, and no other derived value does.
C6_SaO2AndBaseExcessPass ==
  last.called =>
    \A f \in DerivedFields :
      PassesAfterCalc(last.frame.trace, f)
        = IF f \in {"sao2", "base_excess"} THEN 1 ELSE 0

\* C6, amended: in both modes, after the recomputation SaO2 alone receives
\* exactly one further variability pass; base excess and every other
\* derived value receive none, so the returned base excess is the value
\* calculated from the final pH, HCO3 and hemoglobin.
C6_OnlySaO2Pass ==
  last.called =>
    /\ \A f \in DerivedFields :
         PassesAfterCalc(last.frame.trace, f) = IF f = "sao2" THEN 1 ELSE 0
    /\ Values.base_excess
         = calculate_base_excess(Values.ph, Values.hco3, Values.hemoglobin)

\* A call of each kind with variability whose returned SaO2 is not the
\* saturation of its final pO2 and pH: the further pass changed it.
C6_Witness ==
  /\ last.called
  /\ last.args.add_variability
  /\ Values.sao2 # calculate_sao2_default(Values.po2, Values.ph)
  /\ Values.base_excess
       = calculate_base_excess(Values.ph, Values.hco3, Values.hemoglobin)

InRange(x, lo, hi) == lo <= x /\ x <= hi

\* C7: in scenario mode with variability disabled, for every list of
\* conditions, severities and patient, the result has pCO2 in [12, 120],
\* HCO3 in [4, 50] and pH in [6.80, 7.80], and a target already inside its
\* bounds is returned unchanged.
C7_ScenarioClamp ==
  (ScenarioMode /\ ~last.args.add_variability) =>
    LET t == last.frame.targets
    IN  /\ InRange(Values.pco2, 12 * Unit, 120 * Unit)
        /\ InRange(Values.hco3, 4 * Unit, 50 * Unit)
        /\ InRange(Values.ph, 68000, 78000)
        /\ InRange(t.raw_pco2, 12 * Unit, 120 * Unit) => Values.pco2 = t.raw_pco2
        /\ InRange(t.raw_hco3, 4 * Unit, 50 * Unit) => Values.hco3 = t.raw_hco3
        /\ InRange(t.raw_ph, 68000, 78000) => Values.ph = t.raw_ph

\* A scenario-mode call without variability whose summed deltas drive a
\* target past its bound, so that the clamp acts.
C7_Witness ==
  /\ ScenarioMode
  /\ ~last.args.add_variability
  /\ \/ last.frame.targets.raw_pco2 > 120 * Unit
     \/ last.frame.targets.raw_hco3 < 4 * Unit
     \/ last.frame.targets.raw_hco3 > 50 * Unit
  /\ InRange(Values.pco2, 12 * Unit, 120 * Unit)
  /\ InRange(Values.hco3, 4 * Unit, 50 * Unit)

\* C8: every result, of either mode, with or without variability, has pH
\* within [6.80, 7.80].
C8_PhWithinBounds ==
  last.called => InRange(Values.ph, 68000, 78000)

\* pH = 6.1 + log10(hco3 / (0.03 * pco2)) of an AcidBaseState.
HendersonHasselbalch(state) ==
  state.ph = PK + Log10(100 * state.hco3, 3 * state.pco2)

\* C9: the pre-noise AcidBaseState of generate_for_disorder, for every
\* disorder (NORMAL included), severity, compensation, duration and
\* baseline, and the state apply_secondary_disorder returns, satisfy
\* pH = 6.1 + log10(hco3 / (0.03 * pco2)).
C9_StatesSatisfyHendersonHasselbalch ==
  DisorderMode =>
    /\ HendersonHasselbalch(last.frame.targets.generated)
    /\ HendersonHasselbalch(last.frame.targets.ab_state)

\* C10: the GenerationParams of every result record every input that
\* influenced the generation: in disorder mode the severity and the
\* duration used, in scenario mode the severity applied to each condition
\* of the list, a defaulted MODERATE included.
C10_ParamsRecordEveryInput ==
  LET params == last.result.generation_params
  IN  /\ DisorderMode =>
           /\ "severity" \in DOMAIN params
           /\ "duration" \in DOMAIN params
      /\ ScenarioMode =>
           \A i \in 1..Len(last.args.conditions) :
             LET c == last.args.conditions[i]
             IN  /\ c \in DOMAIN params.condition_severities
                 /\ params.condition_severities[c] = last.frame.targets.severities[c]

-----------------------------------------------------------------------------
(* Two calls on two threads.  Nothing in generate_blood_gas serialises the *)
(* calls: both seed and draw from the one generator of the module random.  *)
(* A thread can be switched out between the statements of the call: after  *)
(* the engine is constructed and the pre-noise values are computed, and    *)
(* after each statement of the variability section.                        *)

\* Switches away from a call that has not returned, per run.
MaxPreemptions == 1

ThreadIds == {1, 2}

\* The seeded calls the threads make.
ThreadArgs ==
  {Args("METABOLIC_ACIDOSIS", "MODERATE", "APPROPRIATE", None, "ACUTE", None,
        NoneDict, NonePatient, 2100, TRUE, seed) : seed \in Seeds}
  \cup
  {Args(None, None, "APPROPRIATE", None, "ACUTE", <<"DKA">>, NoneDict,
        NonePatient, 2100, TRUE, 1)}

\* A thread that has not entered its call.
ThreadAtStart(args) ==
  [args |-> args, status |-> "ready", disturbed |-> FALSE]

InitThreads ==
  /\ rng \in RngStatesAtStart
  /\ CONDITION_EFFECTS = CatalogAtImport
  /\ last = NoCall
  /\ remembered = NoCall
  /\ \E a1 \in ThreadArgs, a2 \in ThreadArgs :
       threads = [calls |-> <<ThreadAtStart(a1), ThreadAtStart(a2)>>,
                  current |-> 0, preemptions |-> 0]
  /\ applied = NotApplied

\* Running thread t switches out a thread that has not returned.  The
\* scheduler lets t run when it is running already, when no thread has run
\* yet, when the running thread has returned, and when the running thread
\* can be switched out.
Preempted(t) ==
  IF threads.current \in {0, t} THEN FALSE
  ELSE threads.calls[threads.current].status # "returned"

MayRun(t) == Preempted(t) => threads.preemptions < MaxPreemptions

\* The other thread after thread t wrote the generator: a call in progress
\* has been disturbed.
Disturb(other, wrote) ==
  IF wrote /\ other.status = "running"
  THEN [other EXCEPT !.disturbed = TRUE] ELSE other

\* Thread t has taken a step that left it as "mine" and the generator as
\* "generator".
Scheduled(t, mine, generator) ==
  /\ rng' = generator
  /\ threads' =
       [calls |-> [u \in ThreadIds |->
                    IF u = t THEN mine
                    ELSE Disturb(threads.calls[u], generator # rng)],
        current |-> t,
        preemptions |-> threads.preemptions + (IF Preempted(t) THEN 1 ELSE 0)]
  /\ UNCHANGED <<CONDITION_EFFECTS, last, remembered, applied>>

\* Thread t enters generate_blood_gas: constructs its engine, which seeds
\* the shared generator, and computes the pre-noise values.
Entered(t, entered) ==
  Scheduled(t, [args |-> threads.calls[t].args, status |-> "running",
                disturbed |-> FALSE, frame |-> entered[1]],
            entered[2])

ThreadEnter(t) ==
  /\ threads.calls[t].status = "ready"
  /\ MayRun(t)
  /\ Entered(t, Enter(threads.calls[t].args, CONDITION_EFFECTS, rng))

\* Thread t executes the next statement of its variability section.
Stepped(t, stepped) ==
  Scheduled(t, [threads.calls[t] EXCEPT !.frame = stepped[1]], stepped[2])

ThreadStep(t) ==
  /\ threads.calls[t].status = "running"
  /\ ~Finished(threads.calls[t].frame)
  /\ MayRun(t)
  /\ Stepped(t, Step(threads.calls[t].frame, rng))

\* Thread t returns its result.
ThreadReturn(t) ==
  /\ threads.calls[t].status = "running"
  /\ Finished(threads.calls[t].frame)
  /\ MayRun(t)
  /\ Scheduled(t, [args |-> threads.calls[t].args, status |-> "returned",
                   disturbed |-> threads.calls[t].disturbed,
                   result |-> Return(threads.calls[t].frame, CONDITION_EFFECTS)],
               rng)

NextThreads ==
  \/ \E t \in ThreadIds : ThreadEnter(t)
  \/ \E t \in ThreadIds : ThreadStep(t)
  \/ \E t \in ThreadIds : ThreadReturn(t)

SpecThreads == InitThreads /\ [][NextThreads]_vars

-----------------------------------------------------------------------------
(* Properties of two calls on two threads *)

\* The values the call returns when it runs alone.
Alone(args) == FirstCallOfProcess(args).values

\* Thread t has returned values other than the ones its call returns alone.
DiffersFromAlone(t) ==
  /\ threads.calls[t].status = "returned"
  /\ threads.calls[t].result.values # Alone(threads.calls[t].args)

\* C3: two seeded calls on two threads share the generator unserialised.
\* A call returns its alone result whenever the other thread did not write
\* the generator while the call was in progress, so a result that differs
\* from the alone result is the work of an interleaving; C3_Witness is such
\* an interleaving.
C3_OnlyTheRaceChangesASeededResult ==
  \A t \in ThreadIds : DiffersFromAlone(t) => threads.calls[t].disturbed

\* Both seeded calls have returned after an interleaving of their seed and
\* draw steps, and one of them returned values it does not return alone.
C3_Witness ==
  /\ \A t \in ThreadIds : threads.calls[t].status = "returned"
  /\ threads.preemptions > 0
  /\ \E t \in ThreadIds :
       /\ DiffersFromAlone(t)
       /\ threads.calls[t].disturbed

-----------------------------------------------------------------------------
(* Properties of the interpretation *)

\* The fields of a ClinicalInterpretation other than teaching_points and
\* the generating_conditions echo.
Findings(interpretation) ==
  [f \in DOMAIN interpretation \ {"teaching_points", "generating_conditions"}
     |-> interpretation[f]]

\* Condition lists an interpretation can be handed with a result: none, the
\* empty list, and lists of catalog conditions.
InterpretedWith ==
  {None, <<>>, <<"HEALTHY">>, <<"DKA">>, <<"OPIOID_OVERDOSE">>,
   <<"DKA", "OPIOID_OVERDOSE">>}

\* C11: two runs of interpret on results with the same numeric values and
\* different condition lists (or none) agree on every field except
\* teaching_points and generating_conditions: the disorders, the
\* compensation, oxygenation and anion-gap status, the severity and the
\* clinical implications do not depend on the condition list.
C11_FindingsIgnoreConditions ==
  last.called =>
    \A conditions \in InterpretedWith :
      Findings(interpret(Values, conditions, CONDITION_EFFECTS))
        = Findings(last.result.interpretation)

-----------------------------------------------------------------------------
(* The functions of the engines applied on their own, as a caller of the   *)
(* library or a test applies them, over the arguments below.               *)

\* An application: the function, its arguments and what it returned.
Applied(op, input, output) == [op |-> op, input |-> input, output |-> output]

\* One function is applied in a run; the generator and the calls are left
\* alone.
Apply(op, input, output) ==
  /\ applied' = Applied(op, input, output)
  /\ UNCHANGED <<rng, CONDITION_EFFECTS, last, remembered, threads>>

\* pCO2 and HCO3 handed to the Henderson-Hasselbalch conversions: negative,
\* zero, and values over the clamped range.
GasInputs == {-40 * Unit, 0, 4 * Unit, 12 * Unit, 24 * Unit, 40 * Unit, 120 * Unit}

PhInputs == {68000, 71000, 74000, 78000}

ApplyCalculatePh ==
  /\ applied = NotApplied
  /\ \E hco3 \in GasInputs, pco2 \in GasInputs :
       Apply("calculate_ph", [hco3 |-> hco3, pco2 |-> pco2], calculate_ph(hco3, pco2))

ApplyCalculateHco3 ==
  /\ applied = NotApplied
  /\ \E ph \in PhInputs, pco2 \in GasInputs :
       Apply("calculate_hco3", [ph |-> ph, pco2 |-> pco2], calculate_hco3(ph, pco2))

ApplyCalculatePco2 ==
  /\ applied = NotApplied
  /\ \E ph \in PhInputs, hco3 \in GasInputs :
       Apply("calculate_pco2", [ph |-> ph, hco3 |-> hco3], calculate_pco2(ph, hco3))

\* Condition lists handed to the mapper have up to MaxMapped entries,
\* repeats allowed.
MaxMapped == 4

\* The conditions of those lists: the ones the interaction rules name, the
\* ones that carry a respiratory-drive multiplier, the hyperventilation
\* conditions, which lower pCO2 and leave HCO3 nearly alone, and three
\* that shunt (sepsis, asthma, pneumonia).
MappedConditions ==
  {"OPIOID_OVERDOSE", "LACTIC_ACIDOSIS_SEPSIS", "DKA", "TOXIC_INGESTION_SALICYLATE",
   "ASTHMA_ATTACK", "HYPERVENTILATION_ANXIETY", "HYPERVENTILATION_PAIN", "PNEUMONIA"}

RECURSIVE MappedListsOfLength(_)
MappedListsOfLength(n) ==
  IF n = 0 THEN {<<>>}
  ELSE {Append(l, c) : l \in MappedListsOfLength(n - 1), c \in MappedConditions}

MappedLists == UNION {MappedListsOfLength(n) : n \in 0..MaxMapped}

\* The severities handed to the mapper: an empty dict, or one severity for
\* every condition of the list.
MappedSeverities(conditions) ==
  {<<>>} \cup {[c \in {conditions[i] : i \in 1..Len(conditions)} |-> s] : s \in Severity}

ApplyMapMultipleConditions ==
  /\ applied = NotApplied
  /\ \E conditions \in MappedLists :
       \E severities \in MappedSeverities(conditions) :
         Apply("map_multiple_conditions",
               [conditions |-> conditions, severities |-> severities],
               map_multiple_conditions(CONDITION_EFFECTS, conditions, severities,
                                       DefaultPatient))

\* The pH, pCO2 and HCO3 of the results handed to the interpretation: for
\* each field a value below the normal range, its lower edge, a value
\* inside, its upper edge and a value above.  The label depends on the
\* values only through their order with these edges.
AroundRange(range) ==
  {range[1] - Unit \div 10, range[1], (range[1] + range[2]) \div 2, range[2],
   range[2] + Unit \div 10}

ApplyIdentifyPrimaryDisorder ==
  /\ applied = NotApplied
  /\ \E ph \in AroundRange(NORMAL_PH), pco2 \in AroundRange(NORMAL_PCO2),
        hco3 \in AroundRange(NORMAL_HCO3) :
       Apply("_identify_primary_disorder", [ph |-> ph, pco2 |-> pco2, hco3 |-> hco3],
             _identify_primary_disorder(ph, pco2, hco3))

\* HCO3 or pCO2 handed to the expected-compensation functions: from the
\* lower clamps of the generator (4 mEq/L, 12 mmHg) to its upper clamp of
\* pCO2 (120 mmHg).
CompensationInputs ==
  {4 * Unit, 8 * Unit, 10 * Unit, 12 * Unit, 15 * Unit, 18 * Unit, 20 * Unit,
   24 * Unit, 30 * Unit, 40 * Unit, 50 * Unit, 80 * Unit, 120 * Unit}

ApplyExpectedPco2MetabolicAcidosis ==
  /\ applied = NotApplied
  /\ \E hco3 \in CompensationInputs :
       Apply("expected_pco2_metabolic_acidosis", [hco3 |-> hco3],
             expected_pco2_metabolic_acidosis(hco3))

ApplyExpectedPco2MetabolicAlkalosis ==
  /\ applied = NotApplied
  /\ \E hco3 \in CompensationInputs :
       Apply("expected_pco2_metabolic_alkalosis", [hco3 |-> hco3],
             expected_pco2_metabolic_alkalosis(hco3))

ApplyExpectedHco3RespiratoryAcidosisAcute ==
  /\ applied = NotApplied
  /\ \E pco2 \in CompensationInputs :
       Apply("expected_hco3_respiratory_acidosis_acute", [pco2 |-> pco2],
             expected_hco3_respiratory_acidosis_acute(pco2))

ApplyExpectedHco3RespiratoryAcidosisChronic ==
  /\ applied = NotApplied
  /\ \E pco2 \in CompensationInputs :
       Apply("expected_hco3_respiratory_acidosis_chronic", [pco2 |-> pco2],
             expected_hco3_respiratory_acidosis_chronic(pco2))

ApplyExpectedHco3RespiratoryAlkalosisAcute ==
  /\ applied = NotApplied
  /\ \E pco2 \in CompensationInputs :
       Apply("expected_hco3_respiratory_alkalosis_acute", [pco2 |-> pco2],
             expected_hco3_respiratory_alkalosis_acute(pco2))

ApplyExpectedHco3RespiratoryAlkalosisChronic ==
  /\ applied = NotApplied
  /\ \E pco2 \in CompensationInputs :
       Apply("expected_hco3_respiratory_alkalosis_chronic", [pco2 |-> pco2],
             expected_hco3_respiratory_alkalosis_chronic(pco2))

\* The arguments of generate_electrolytes: HCO3 over the clamped range of
\* the generator, the anion-gap targets of the catalog or none, sodium
\* targets or none, with and without a chloride target.
ElectrolyteInputs ==
  [hco3 : {4 * Unit, 8 * Unit, 14 * Unit, 20 * Unit, 24 * Unit, 30 * Unit, 36 * Unit,
           46 * Unit, 50 * Unit},
   elevated_anion_gap : BOOLEAN,
   target_anion_gap : {NoneNumber, 10 * Unit, 16 * Unit, 22 * Unit, 35 * Unit},
   sodium_target : {NoneNumber, 132 * Unit, 146 * Unit},
   chloride_target : {NoneNumber, 100 * Unit},
   albumin : {25000, 4 * Unit}]

ApplyGenerateElectrolytes ==
  /\ applied = NotApplied
  /\ \E input \in ElectrolyteInputs :
       Apply("generate_electrolytes", input,
             generate_electrolytes(input.hco3, 74000, input.elevated_anion_gap,
                                   input.target_anion_gap, input.sodium_target,
                                   NoneNumber, input.chloride_target, NoneNumber,
                                   NoneNumber, input.albumin))

\* The arguments of add_variability: an engine enabled or disabled, a
\* coefficient of variation negative, zero or positive, a pH and a PaO2.
VariabilityInputs ==
  [enabled : BOOLEAN, cv : {-300, 0, 300}, value : {74000, 30 * Unit},
   distribution : {"normal", "lognormal"}]

\* add_variability on the shared generator: the generator is left as the
\* draws of the call left it.
ApplyAddVariability ==
  /\ applied = NotApplied
  /\ \E input \in VariabilityInputs :
       /\ applied' =
            Applied("add_variability", [given |-> input, rng |-> rng],
                    add_variability(VariabilityConfig(input.enabled, NoneNumber), rng,
                                    input.value, input.cv, NoneNumber, NoneNumber,
                                    input.distribution)[1])
       /\ rng' =
            add_variability(VariabilityConfig(input.enabled, NoneNumber), rng,
                            input.value, input.cv, NoneNumber, NoneNumber,
                            input.distribution)[2]
  /\ UNCHANGED <<CONDITION_EFFECTS, last, remembered, threads>>

\* map_single_condition on every condition of the catalog at every
\* severity.
ApplyMapSingleCondition ==
  /\ applied = NotApplied
  /\ \E condition \in ClinicalCondition, severity \in Severity :
       Apply("map_single_condition", [condition |-> condition, severity |-> severity],
             map_single_condition(CONDITION_EFFECTS, condition, severity, DefaultPatient))

NextApply ==
  \/ ApplyCalculatePh
  \/ ApplyExpectedPco2MetabolicAcidosis
  \/ ApplyExpectedPco2MetabolicAlkalosis
  \/ ApplyExpectedHco3RespiratoryAcidosisAcute
  \/ ApplyExpectedHco3RespiratoryAcidosisChronic
  \/ ApplyExpectedHco3RespiratoryAlkalosisAcute
  \/ ApplyExpectedHco3RespiratoryAlkalosisChronic
  \/ ApplyCalculateHco3
  \/ ApplyCalculatePco2
  \/ ApplyMapMultipleConditions
  \/ ApplyIdentifyPrimaryDisorder
  \/ ApplyGenerateElectrolytes
  \/ ApplyAddVariability
  \/ ApplyMapSingleCondition

SpecApply == Init /\ [][NextApply]_vars

-----------------------------------------------------------------------------
(* Properties of the functions applied on their own *)

Conversions == {"calculate_ph", "calculate_hco3", "calculate_pco2"}

\* The pCO2 or the HCO3 among the arguments is zero or negative.
NonPositiveGas(input) ==
  \E f \in DOMAIN input \cap {"pco2", "hco3"} : input[f] <= 0

\* C12: each of calculate_ph, calculate_hco3 and calculate_pco2 fails with
\* a domain error, returning no value, whenever the pCO2 or HCO3 it is
\* given is zero or negative.
C12_ConversionsRejectNonPositive ==
  (applied.op \in Conversions /\ NonPositiveGas(applied.input))
    => applied.output = ValueError

-----------------------------------------------------------------------------
(* Properties of a single call: errors *)

\* The fields of a call that hold the ValueError of a raise rather than a
\* number: the pH of the pre-noise acid-base states (calculate_ph), and the
\* values the variability section and the recalculation left (math.log in
\* the log-normal path, calculate_pf_ratio).
RaisedIn(call) ==
  \/ /\ call.args.conditions = None
     /\ \/ call.frame.targets.generated.ph = ValueError
        \/ call.frame.targets.ab_state.ph = ValueError
  \/ /\ call.args.conditions # None
     /\ call.frame.targets.raw_ph = ValueError
  \/ \E f \in DOMAIN call.result.values : call.result.values[f] = ValueError

\* The values the log-normal path takes the logarithm of.
LogNormalFields == {"po2", "glucose", "lactate"}

\* C13: for every disorder-mode combination and every list of enumerated
\* conditions (the empty list included), any severities, patient and
\* FiO2 > 0, with variability on or off, generate_blood_gas returns a
\* result: no Henderson-Hasselbalch domain error is raised, every
\* enumerated condition has a catalog record, and the log-normal path
\* never takes the logarithm of a value <= 0.
C13_GenerationNeverRaises ==
  /\ ClinicalCondition \subseteq DOMAIN CONDITION_EFFECTS
  /\ last.called =>
       /\ ~RaisedIn(last)
       /\ \A f \in LogNormalFields : Values[f] > 0

\* A call with variability on a gas mixture whose alveolar pO2 is below
\* the A-a gradient: the generated PaO2 rests on its floor and the
\* log-normal pass over it returned a value.
C13_Witness ==
  /\ last.called
  /\ last.args.fio2 = 500
  /\ last.args.add_variability
  /\ calculate_alveolar_po2(last.args.fio2, Values.pco2) < 0
  /\ Values.po2 >= 20 * Unit
  /\ ~RaisedIn(last)

-----------------------------------------------------------------------------
(* Properties of a single call: conditions that interact *)

\* The scenario-mode call with DKA alone, at the severity DKA has in the
\* call with the given arguments, for the same patient and FiO2.
DkaAlone(args) ==
  Args(None, None, "APPROPRIATE", None, "ACUTE", <<"DKA">>,
       [c \in {"DKA"} |-> SeverityOf(OrEmptyDict(args.condition_severities), "DKA")],
       args.patient_factors, args.fio2, FALSE, NoneNumber)

\* A call with DKA and an opioid overdose together, in either order,
\* variability disabled.
DkaWithOpioid ==
  /\ ScenarioMode
  /\ ~last.args.add_variability
  /\ last.args.conditions \in {<<"DKA", "OPIOID_OVERDOSE">>, <<"OPIOID_OVERDOSE", "DKA">>}

\* C14: for every severity of DKA and of OPIOID_OVERDOSE and either order
\* of the list, the pCO2 of the scenario-mode call with both conditions
\* (variability disabled) is strictly higher than the pCO2 of the call with
\* DKA alone at the same DKA severity for the same patient.
C14_OpioidRaisesPco2OfDka ==
  DkaWithOpioid =>
    Values.pco2 >
      generate_blood_gas(DkaAlone(last.args), CONDITION_EFFECTS, rng).result.values.pco2

\* DKA at its strongest with the mildest opioid overdose, DKA second in
\* the list.
C14_Witness ==
  /\ DkaWithOpioid
  /\ last.args.conditions = <<"OPIOID_OVERDOSE", "DKA">>
  /\ last.frame.targets.severities =
       [c \in {"DKA", "OPIOID_OVERDOSE"} |-> IF c = "DKA" THEN "SEVERE" ELSE "MILD"]
  /\ last.args.patient_factors # NonePatient
  /\ Values.pco2 >
       generate_blood_gas(DkaAlone(last.args), CONDITION_EFFECTS, rng).result.values.pco2

\* A call with DKA alone at severity SEVERE, variability disabled.
SevereDka ==
  /\ ScenarioMode
  /\ ~last.args.add_variability
  /\ last.args.conditions = <<"DKA">>
  /\ last.frame.targets.severities = [c \in {"DKA"} |-> "SEVERE"]

\* The patient of the last call: the default adult when none was passed.
PatientOfCall ==
  IF last.args.patient_factors = NonePatient THEN DefaultPatient
  ELSE last.args.patient_factors

\* The picture of severe DKA: a corrected anion gap above 20, glucose
\* above 250, pCO2 strictly below the patient's baseline pCO2.
SevereDkaPicture ==
  /\ Values.corrected_anion_gap > 20 * Unit
  /\ Values.glucose > 250 * Unit
  /\ Values.pco2 < get_baseline_pco2(PatientOfCall)

-----------------------------------------------------------------------------
(* Properties of the mapper applied on its own *)

\* map_multiple_conditions has been applied to a list with the condition.
MappedWith(condition) ==
  /\ applied.op = "map_multiple_conditions"
  /\ _has_condition(applied.input.conditions, condition)

\* The deltas of each condition of the list on its own, in list order.
PerCondition(input) ==
  [i \in 1..Len(input.conditions) |->
     map_single_condition(CONDITION_EFFECTS, input.conditions[i],
                          SeverityOf(input.severities, input.conditions[i]),
                          DefaultPatient)]

\* The plain sum of the per-condition pCO2 deltas from the i-th on.
RECURSIVE SumOfPco2Deltas(_, _)
SumOfPco2Deltas(singles, i) ==
  IF i > Len(singles) THEN 0
  ELSE singles[i].pco2_delta + SumOfPco2Deltas(singles, i + 1)

\* The product of the per-condition respiratory-drive multipliers from the
\* i-th on.
RECURSIVE ProductOfMultipliers(_, _)
ProductOfMultipliers(singles, i) ==
  IF i > Len(singles) THEN Unit
  ELSE FxMul(singles[i].respiratory_drive_multiplier,
             ProductOfMultipliers(singles, i + 1))

\* C16: for every non-empty list that contains LACTIC_ACIDOSIS_SEPSIS, the
\* one-element list included, the deltas map_multiple_conditions returns
\* have a respiratory_drive_multiplier of at least 1.3.
C16_SepsisDriveAtLeast13 ==
  MappedWith("LACTIC_ACIDOSIS_SEPSIS") =>
    applied.output.respiratory_drive_multiplier >= 13000

\* C17: for every list that contains OPIOID_OVERDOSE the deltas
\* map_multiple_conditions returns have compensation_blocked = True, and
\* whenever the summed pCO2 delta is negative the returned pCO2 delta is
\* that sum multiplied by the folded respiratory-drive multiplier.
C17_OpioidBlocksAndDampens ==
  MappedWith("OPIOID_OVERDOSE") =>
    /\ applied.output.compensation_blocked
    /\ SumOfPco2Deltas(PerCondition(applied.input), 1) < 0 =>
         applied.output.pco2_delta =
           FxMul(SumOfPco2Deltas(PerCondition(applied.input), 1),
                 ProductOfMultipliers(PerCondition(applied.input), 1))

\* C18: for every list that contains OPIOID_OVERDOSE the pCO2 delta
\* map_multiple_conditions returns is never lower than the plain sum of the
\* per-condition pCO2 deltas, whatever multipliers the other conditions
\* carry.
C18_OpioidNeverAmplifies ==
  MappedWith("OPIOID_OVERDOSE") =>
    applied.output.pco2_delta >= SumOfPco2Deltas(PerCondition(applied.input), 1)

-----------------------------------------------------------------------------
(* Properties of the interpretation applied on its own *)

\* _identify_primary_disorder has been applied to a result.
Identified == applied.op = "_identify_primary_disorder"

\* The labels _identify_primary_disorder returns over the values on every
\* side of the edges of the three normal ranges.
ReturnedLabels ==
  {_identify_primary_disorder(ph, pco2, hco3) :
     ph \in AroundRange(NORMAL_PH), pco2 \in AroundRange(NORMAL_PCO2),
     hco3 \in AroundRange(NORMAL_HCO3)}

\* The labels of the three branches that a result can get.
NineLabels ==
  {"Normal", "Compensated Metabolic Acidosis",
   "Compensated Respiratory Acidosis or Metabolic Alkalosis",
   "Respiratory Acidosis", "Metabolic Acidosis", "Acidemia - Mixed Disorder",
   "Respiratory Alkalosis", "Metabolic Alkalosis", "Alkalemia - Mixed Disorder"}

\* C19: _identify_primary_disorder is total and deterministic: every
\* (pH, pCO2, HCO3) gets exactly one label, the same each time, and the
\* labels returned over all inputs are exactly nine.
C19_NineLabelsInAll ==
  Identified =>
    /\ applied.output \in NineLabels
    /\ applied.output =
         _identify_primary_disorder(applied.input.ph, applied.input.pco2,
                                    applied.input.hco3)
    /\ ReturnedLabels = NineLabels
    /\ Cardinality(ReturnedLabels) = 9

\* An acidemic result with pCO2 and HCO3 both above their ranges falls to
\* the fallback label of the acidemia branch.
C19_Witness ==
  /\ Identified
  /\ applied.input.ph < NORMAL_PH[1]
  /\ applied.input.pco2 > NORMAL_PCO2[2]
  /\ applied.input.hco3 > NORMAL_HCO3[2]
  /\ applied.output = "Acidemia - Mixed Disorder"
  /\ Cardinality(ReturnedLabels) = 9

\* C20: a result with acidemia (pH < 7.35), pCO2 > 45 and HCO3 < 22 is
\* labelled "Mixed Respiratory and Metabolic Acidosis", and a result with
\* alkalemia (pH > 7.45), pCO2 < 35 and HCO3 > 26 is labelled "Mixed
\* Respiratory Alkalosis and Metabolic Alkalosis".
C20_MixedDisordersLabelled ==
  Identified =>
    /\ (/\ applied.input.ph < NORMAL_PH[1]
        /\ applied.input.pco2 > NORMAL_PCO2[2]
        /\ applied.input.hco3 < NORMAL_HCO3[1])
         => applied.output = "Mixed Respiratory and Metabolic Acidosis"
    /\ (/\ applied.input.ph > NORMAL_PH[2]
        /\ applied.input.pco2 < NORMAL_PCO2[1]
        /\ applied.input.hco3 > NORMAL_HCO3[2])
         => applied.output = "Mixed Respiratory Alkalosis and Metabolic Alkalosis"

-----------------------------------------------------------------------------
(* Properties of the expected-compensation functions applied on their own *)

ExpectedCompensationFunctions ==
  {"expected_pco2_metabolic_acidosis", "expected_pco2_metabolic_alkalosis",
   "expected_hco3_respiratory_acidosis_acute",
   "expected_hco3_respiratory_acidosis_chronic",
   "expected_hco3_respiratory_alkalosis_acute",
   "expected_hco3_respiratory_alkalosis_chronic"}

\* C21: each of the six expected-compensation functions returns, for every
\* input, a pair (lo, hi) two below and two above its point estimate, so
\* that hi - lo = 4 and lo <= hi, the respiratory-alkalosis functions at
\* low pCO2 included; expected_pco2_metabolic_acidosis(10) = (21, 25).
C21_WindowIsEstimatePlusMinusTwo ==
  applied.op \in ExpectedCompensationFunctions =>
    /\ applied.output[2] - applied.output[1] = 4 * Unit
    /\ applied.output[1] <= applied.output[2]
    /\ (applied.op = "expected_pco2_metabolic_acidosis" /\ applied.input.hco3 = 10 * Unit)
         => applied.output = <<21 * Unit, 25 * Unit>>

-----------------------------------------------------------------------------
(* Properties of a single call: the generated acid-base state *)

\* The AcidBaseState generate_for_disorder returned to the last call.
Generated == last.frame.targets.generated

\* C22: for every disorder but NORMAL, every severity, duration and patient
\* baseline, the AcidBaseState generate_for_disorder returns has
\* compensation_status APPROPRIATE if and only if the compensation mode
\* asked for is APPROPRIATE.
C22_AppropriateIffAsked ==
  (DisorderMode /\ Generated.primary_disorder # "NORMAL") =>
    (Generated.compensation_status = "APPROPRIATE"
       <=> last.args.compensation = "APPROPRIATE")

-----------------------------------------------------------------------------
(* Properties of the electrolytes generated on their own *)

\* C23: whenever generate_electrolytes is called without a chloride target,
\* for every sodium, anion-gap target and HCO3, the state it returns has
\* chloride = sodium - anion_gap - hco3: its anion_gap field equals
\* sodium - (chloride + hco3).
C23_GapMatchesChloride ==
  (applied.op = "generate_electrolytes" /\ applied.input.chloride_target = NoneNumber) =>
    applied.output.anion_gap =
      calculate_anion_gap(applied.output.sodium, applied.output.chloride,
                          applied.input.hco3)

-----------------------------------------------------------------------------
(* Properties of a single call: the anion gap of the interpretation *)

\* The finding of the electrolyte module on a corrected anion gap and an
\* HCO3: analyze_delta_ratio of calculate_delta_ratio.
ElectrolyteFinding(corrected_ag, hco3) ==
  IF analyze_delta_ratio(calculate_delta_ratio(corrected_ag, hco3))[1]
  THEN "non-anion gap metabolic acidosis"
  ELSE IF analyze_delta_ratio(calculate_delta_ratio(corrected_ag, hco3))[2]
  THEN "metabolic alkalosis"
  ELSE "pure HAGMA"

\* C24: for every result whose corrected anion gap is elevated (> 14) the
\* delta-ratio finding of the interpretation agrees with
\* calculate_delta_ratio and analyze_delta_ratio on the same corrected
\* anion gap and HCO3: concurrent non-gap acidosis iff the ratio is below
\* 1, concurrent metabolic alkalosis iff it is above 2 (the +infinity of
\* HCO3 >= 24 with a delta gap above 4 included), pure high-gap acidosis
\* otherwise.
C24_DeltaRatioFindingsAgree ==
  (last.called /\ Values.corrected_anion_gap > 14 * Unit) =>
    last.result.interpretation.delta_delta_analysis =
      ElectrolyteFinding(Values.corrected_anion_gap, Values.hco3)

-----------------------------------------------------------------------------
(* Properties of a single call: oxygenation *)

\* C25: the po2 of every result generate_blood_gas returns is at least
\* 30 mmHg, the floor generate_oxygenation applies, in both modes, with
\* variability enabled or disabled.
C25_Po2AtLeastFloor ==
  last.called => Values.po2 >= 30 * Unit

-----------------------------------------------------------------------------
(* Properties of the variability applied on its own *)

\* add_variability has been applied with the engine disabled or with a
\* coefficient of variation <= 0.
AppliedWithoutVariation ==
  /\ applied.op = "add_variability"
  /\ ~applied.input.given.enabled \/ applied.input.given.cv <= 0

\* Calls of generate_blood_gas with add_variability=False and no seed, one
\* of each mode.
QuietUnseededArgs ==
  {Args("METABOLIC_ACIDOSIS", "SEVERE", "PARTIAL", "RESPIRATORY_ACIDOSIS", "ACUTE", None,
        NoneDict, NonePatient, 2100, FALSE, NoneNumber),
   Args(None, None, "APPROPRIATE", None, "ACUTE", <<"DKA", "OPIOID_OVERDOSE">>,
        NoneDict, NonePatient, 4000, FALSE, NoneNumber)}

\* C26: when the engine is disabled or the coefficient of variation is
\* <= 0, add_variability returns exactly the value it was given and draws
\* nothing, the generator after the call being the generator before it;
\* and a generate_blood_gas call with add_variability=False and no seed
\* leaves the generator of the process as it found it.
C26_NoVariationNoDraw ==
  applied.op = "add_variability" =>
    /\ AppliedWithoutVariation =>
         /\ applied.output = applied.input.given.value
         /\ rng = applied.input.rng
    /\ \A args \in QuietUnseededArgs :
         generate_blood_gas(args, CONDITION_EFFECTS, rng).rng = rng

\* A disabled engine asked for the log-normal variation of a PaO2 returns
\* it untouched, from a generator that holds a cached gauss value.
C26_Witness ==
  /\ AppliedWithoutVariation
  /\ ~applied.input.given.enabled
  /\ applied.input.given.cv > 0
  /\ applied.input.given.distribution = "lognormal"
  /\ applied.input.rng.gauss_next # NoneNumber
  /\ applied.output = applied.input.given.value
  /\ rng = applied.input.rng

-----------------------------------------------------------------------------
(* Properties of a single call: the arguments after the call *)

\* The condition_severities mapping in the caller's hands after the last
\* call.
CallerDict == CallerDictAfter(last.args, last.frame.targets.severities)

\* C27: generate_blood_gas does not modify its arguments: after a
\* scenario-mode call the caller's condition_severities mapping holds
\* exactly the entries it held before the call.  (Nothing in the call
\* assigns to the conditions list or to the PatientFactors.)
C27_CallerDictUntouched ==
  ScenarioMode => CallerDict = last.args.condition_severities

\* The orders a list of n conditions can be given in.
Orders(n) ==
  {q \in [1..n -> 1..n] : \A i, j \in 1..n : q[i] = q[j] => i = j}

\* The list in the order q.
Permuted(conditions, q) == [i \in 1..Len(conditions) |-> conditions[q[i]]]

\* C28: for any list of conditions, severities and patient,
\* map_multiple_conditions returns the same deltas for every permutation
\* of the list, lists of three or more conditions with non-zero shunt
\* fractions included.
C28_OrderOfTheListIsImmaterial ==
  applied.op = "map_multiple_conditions" =>
    \A q \in Orders(Len(applied.input.conditions)) :
      map_multiple_conditions(CONDITION_EFFECTS,
                              Permuted(applied.input.conditions, q),
                              applied.input.severities, DefaultPatient)
        = applied.output

-----------------------------------------------------------------------------
(* Properties of the mapping of one condition *)

\* The severities milder than the given one.
Milder(severity) ==
  IF severity = "SEVERE" THEN {"MILD", "MODERATE"}
  ELSE IF severity = "MODERATE" THEN {"MILD"}
  ELSE {}

\* C29: for every condition of the catalog, map_single_condition is
\* monotone in severity in the direction of the derangement: the
\* magnitudes of pco2_delta and hco3_delta at SEVERE are at least those at
\* MODERATE, which are at least those at MILD.
C29_MagnitudeGrowsWithSeverity ==
  applied.op = "map_single_condition" =>
    \A milder \in Milder(applied.input.severity) :
      /\ Abs(applied.output.pco2_delta) >=
           Abs(map_single_condition(CONDITION_EFFECTS, applied.input.condition,
                                    milder, DefaultPatient).pco2_delta)
      /\ Abs(applied.output.hco3_delta) >=
           Abs(map_single_condition(CONDITION_EFFECTS, applied.input.condition,
                                    milder, DefaultPatient).hco3_delta)

-----------------------------------------------------------------------------
(* Properties of the alveolar-arterial gradient *)

\* C30: in every result of a call without variability (both modes, any
\* disorder or list of conditions, any FiO2 from 0.21 to 1.0),
\* aa_gradient >= 0: the arterial po2 never exceeds the alveolar PO2
\* computed from the result's own fio2 and pco2, also where the floor of
\* 30 mmHg or the blend toward 40 mmHg determines po2.
C30_GradientNeverNegative ==
  (/\ last.called
   /\ ~last.args.add_variability
   /\ last.args.fio2 >= 2100
   /\ last.args.fio2 <= Unit) =>
    Values.aa_gradient >= 0

=============================================================================
